---- MODULE Spec2Model ----
(***************************************************************************)
(* Order fulfilment and inventory costing engine of the finance-system     *)
(* backend (FastAPI + SQLAlchemy over SQLite).                             *)
(*                                                                         *)
(* Units.  Quantities are DECIMAL(12,2) kilograms in the source; here a    *)
(* quantity is an integer number of 1/QtyScale kg (hundredths), so that    *)
(* fractional weights exist and int() truncation is not the identity.      *)
(* Money is an integer number of fen (0.01 yuan).  Dates are day numbers;  *)
(* 0 is None.                                                              *)
(* Ids are positive integers, 0 is None; entity ids are strings.           *)
(***************************************************************************)
EXTENDS Integers, Sequences, FiniteSets, TLC

VARIABLES orders, stocks, flows, batches, allocs, accounts, balance,
          payments, now, sessions, lastOp

vars == <<orders, stocks, flows, batches, allocs, accounts, balance,
          payments, now, sessions, lastOp>>

dbvars == <<orders, stocks, flows, batches, allocs, accounts, balance,
            payments>>

(***************************************************************************)
(* Bounds of the model.                                                    *)
(***************************************************************************)
\* Orders in the order lifecycle.
MaxOrders == 2

\* Orders and stock flows in the stock ledger.
MaxStockOrders == 1

MaxFlows == 3

\* Orders and days in the allocation of lots.
MaxFifoOrders == 3

MaxDay == 2

\* Orders among the amounts and account entries.
MaxAcctOrders == 2

\* Orders among the returns.
MaxReturnOrders == 3

\* Orders and payments among the account entries under payment.
MaxPayOrders == 1

MaxPayments == 2

\* Orders and open sessions among the concurrent requests.
MaxTxnOrders == 3

MaxSessions == 2

MaxItemId == 3

\* Units on a weighed line.
MaxUnitCount == 2

QtyScale == 100

(***************************************************************************)
(* Master data: the entities and products the orders refer to.             *)
(***************************************************************************)
Products == {1}

EntityIds == {"S1", "W1", "W2", "C1", "L1", "SYS_MISC_EXPENSE"}

\* Entity.entity_type: comma-joined role tags, kept as the set of tags.
entity_type(e) ==
    CASE e = "S1" -> {"supplier"}
      [] e = "W1" -> {"warehouse"}
      [] e = "W2" -> {"warehouse", "supplier"}
      [] e = "C1" -> {"customer"}
      [] e = "L1" -> {"logistics"}
      [] OTHER -> {"other"}

\* Entity.code of the system party that carries miscellaneous fees.
MISC_EXPENSE_ENTITY_CODE == "SYS_MISC_EXPENSE"

(***************************************************************************)
(* Generic helpers.                                                        *)
(***************************************************************************)
Max(S) == CHOOSE x \in S : \A y \in S : y <= x

Min2(a, b) == IF a <= b THEN a ELSE b

\* SQLite INTEGER PRIMARY KEY: a new row gets max(rowid) + 1.
NewId(rows) == IF Len(rows) = 0 THEN 1 ELSE Max({rows[i].id : i \in 1..Len(rows)}) + 1

\* Python int(): truncation toward zero of a quantity in kg.
IntTrunc(q) == IF q >= 0 THEN (q \div QtyScale) * QtyScale
               ELSE -(((-q) \div QtyScale) * QtyScale)

\* Decimal.quantize(Decimal("0.01")) under the default context
\* (ROUND_HALF_EVEN) of the non-negative rational num/den fen.
Quantize(num, den) ==
    LET q == num \div den
        r == num % den
    IN  IF 2 * r > den THEN q + 1
        ELSE IF 2 * r < den THEN q
        ELSE IF q % 2 = 0 THEN q ELSE q + 1

\* The database as a request's session sees it.  batches and allocs are the
\* ORM objects of the session (identity map); fbatches and fallocs are the
\* rows the connection's SELECTs filter on, which lag behind until the next
\* flush because the session is created with autoflush=False.  At rest
\* (committed) the two agree.
DB == [orders |-> orders, stocks |-> stocks, flows |-> flows,
       batches |-> batches, allocs |-> allocs, accounts |-> accounts,
       balance |-> balance, payments |-> payments,
       fbatches |-> batches, fallocs |-> allocs]

EmptyDB == [orders |-> << >>, stocks |-> << >>, flows |-> << >>,
            batches |-> << >>, allocs |-> << >>, accounts |-> << >>,
            balance |-> [e \in EntityIds |-> 0], payments |-> << >>,
            fbatches |-> << >>, fallocs |-> << >>]

\* AsyncSession.flush(): pending changes reach the connection.
flush(db) == [db EXCEPT !.fbatches = db.batches, !.fallocs = db.allocs]

Idx(rows, id) == CHOOSE i \in 1..Len(rows) : rows[i].id = id

HasId(rows, id) == \E i \in 1..Len(rows) : rows[i].id = id

(***************************************************************************)
(* Stock ledger services (stocks.py), called by the order engine.          *)
(***************************************************************************)
HasStock(db, w, p) ==
    \E i \in 1..Len(db.stocks) :
        db.stocks[i].warehouse_id = w /\ db.stocks[i].product_id = p

StockIdx(db, w, p) ==
    CHOOSE i \in 1..Len(db.stocks) :
        db.stocks[i].warehouse_id = w /\ db.stocks[i].product_id = p

\* Stock.available_quantity
available_quantity(s) == s.quantity - s.reserved_quantity

get_or_create_stock(db, w, p) ==
    IF HasStock(db, w, p) THEN db
    ELSE flush([db EXCEPT !.stocks = Append(@,
            [id |-> NewId(db.stocks), warehouse_id |-> w, product_id |-> p,
             quantity |-> 0, reserved_quantity |-> 0])])

StockFlow(db, stock_id, order_id, flow_type, change, before, reason, ref) ==
    [id |-> NewId(db.flows), stock_id |-> stock_id, order_id |-> order_id,
     flow_type |-> flow_type, quantity_change |-> change,
     quantity_before |-> before, quantity_after |-> before + change,
     reason |-> reason, ref |-> ref]

add_stock(db, w, p, quantity, order_id) ==
    LET Add(d, i) ==
            [d EXCEPT !.stocks[i].quantity = @ + quantity,
                      !.flows = Append(@, StockFlow(d, d.stocks[i].id,
                                    order_id, "in", quantity,
                                    d.stocks[i].quantity, "order", 0))]
        On(d) == Add(d, StockIdx(d, w, p))
    IN  On(get_or_create_stock(db, w, p))

\* Returns [ok, db]; a failed check raises HTTPException(400).
reduce_stock(db, w, p, quantity, order_id, check_available) ==
    LET Reduce(d, i, s) ==
            IF check_available /\ available_quantity(s) < quantity
            THEN [ok |-> FALSE, db |-> d]
            ELSE [ok |-> TRUE,
                  db |-> [d EXCEPT
                     !.stocks[i].quantity = @ - quantity,
                     !.stocks[i].reserved_quantity =
                         @ - (IF s.reserved_quantity > 0
                              THEN Min2(s.reserved_quantity, quantity)
                              ELSE 0),
                     !.flows = Append(@, StockFlow(d, s.id, order_id, "out",
                                    -quantity, s.quantity, "order", 0))]]
        At(d, i) == Reduce(d, i, d.stocks[i])
        On(d) == At(d, StockIdx(d, w, p))
    IN  On(get_or_create_stock(db, w, p))

reserve_stock(db, w, p, quantity) ==
    LET Reserve(d, i, s) ==
            IF available_quantity(s) < quantity
            THEN [ok |-> FALSE, db |-> d]
            ELSE [ok |-> TRUE,
                  db |-> [d EXCEPT
                     !.stocks[i].reserved_quantity = @ + quantity,
                     !.flows = Append(@, StockFlow(d, s.id, 0, "reserve", 0,
                                    s.quantity, "order", 0))]]
        At(d, i) == Reserve(d, i, d.stocks[i])
        On(d) == At(d, StockIdx(d, w, p))
    IN  On(get_or_create_stock(db, w, p))

release_stock(db, w, p, quantity) ==
    LET Release(d, i, s) ==
            [d EXCEPT !.stocks[i].reserved_quantity =
                            @ - Min2(s.reserved_quantity, quantity),
                      !.flows = Append(@, StockFlow(d, s.id, 0, "release", 0,
                                    s.quantity, "order", 0))]
        At(d, i) == Release(d, i, d.stocks[i])
        On(d) == At(d, StockIdx(d, w, p))
    IN  On(get_or_create_stock(db, w, p))

(***************************************************************************)
(* Lot ledger (models/v3/stock_batch.py, batches.py).                      *)
(***************************************************************************)
\* quantity (1/QtyScale kg) times a price in fen per kg.
Amount(quantity, unit_price) == (quantity * unit_price) \div QtyScale

\* StockBatch.available_quantity
batch_available_quantity(b) == b.current_quantity - b.reserved_quantity

\* StockBatch.update_status
update_status(b) ==
    [b EXCEPT !.status = IF b.current_quantity <= 0 THEN "depleted"
                         ELSE IF b.current_quantity < b.initial_quantity
                              THEN "partial" ELSE "active"]

\* StockBatch.real_cost_price in fen per kg; storage_rate and extra_cost are
\* zero on every lot the order engine creates, so those terms vanish.
real_cost_price(b) ==
    IF b.current_quantity <= 0 THEN b.cost_price
    ELSE (b.cost_price * b.current_quantity
          + (b.freight_cost * b.current_quantity * QtyScale)
                \div b.initial_quantity)
         \div b.current_quantity

\* DeductionFormula.value is DECIMAL(10,4): held in 1/ValueScale.
ValueScale == 10000

\* REQUIRED_DEDUCTION_FORMULAS (db/migrations.py), in rowid order.
DeductionFormulas ==
    <<[formula_type |-> "none", value |-> 10000],
      [formula_type |-> "percentage", value |-> 9900],
      [formula_type |-> "fixed_per_unit", value |-> 5000]>>

\* DeductionFormula.calculate_net_weight.  The result is an exact Decimal: it
\* is returned in 1/(QtyScale * ValueScale) kg.
calculate_net_weight(formula, gross_weight, unit_count) ==
    CASE formula.formula_type = "none" -> gross_weight * ValueScale
      [] formula.formula_type = "percentage" -> gross_weight * formula.value
      [] formula.formula_type = "fixed" ->
            Max({gross_weight * ValueScale - formula.value * QtyScale, 0})
      [] formula.formula_type = "fixed_per_unit" ->
            Max({gross_weight * ValueScale
                   - unit_count * formula.value * QtyScale, 0})
      [] OTHER -> gross_weight * ValueScale

\* A Decimal in 1/(QtyScale * ValueScale) kg stored in a DECIMAL(12,2)
\* column: rounded to the nearest 1/QtyScale kg, ties to even.
StoredWeight(w) ==
    LET q == w \div ValueScale
        r == w % ValueScale
    IN  IF 2 * r > ValueScale \/ (2 * r = ValueScale /\ q % 2 = 1)
        THEN q + 1 ELSE q

\* The tare weight handle_stock_changes hands to create_batch_from_purchase;
\* the net weight it computes on the way is used for nothing else.
PurchaseTareWeight(item) ==
    IF item.gross_weight # 0 /\ item.deduction_formula_id # 0
       /\ item.deduction_formula_id \in DOMAIN DeductionFormulas
    THEN LET net_weight ==
               calculate_net_weight(
                   DeductionFormulas[item.deduction_formula_id],
                   item.gross_weight, 1)
         IN  StoredWeight(item.gross_weight * ValueScale - net_weight)
    ELSE 0

create_batch_from_purchase(db, order, item, clock) ==
    flush([db EXCEPT !.batches = Append(@,
        [id |-> NewId(db.batches),
         product_id |-> item.product_id,
         storage_entity_id |-> order.target_id,
         source_order_id |-> order.id,
         gross_weight |-> IF item.gross_weight = 0 THEN item.quantity
                          ELSE item.gross_weight,
         tare_weight |-> IF item.gross_weight = 0 THEN 0
                         ELSE PurchaseTareWeight(item),
         initial_quantity |-> item.quantity,
         current_quantity |-> item.quantity,
         reserved_quantity |-> 0,
         cost_price |-> item.unit_price,
         freight_cost |-> item.shipping_cost,
         status |-> "active",
         received_at |-> IF order.unloading_date # 0
                         THEN order.unloading_date ELSE clock])])

\* An order of the candidate lots by rowid alone.
EarlierById(b1, b2) == b1.id <= b2.id

\* ORDER BY received_at ASC over the candidate lots; rows with equal
\* received_at come back in rowid order.
Earlier(b1, b2) ==
    \/ b1.received_at < b2.received_at
    \/ b1.received_at = b2.received_at /\ b1.id <= b2.id

RECURSIVE SortByReceived(_, _)
SortByReceived(db, S) ==
    IF S = {} THEN << >>
    ELSE LET i == CHOOSE x \in S :
                    \A y \in S : Earlier(db.fbatches[x], db.fbatches[y])
         IN  <<i>> \o SortByReceived(db, S \ {i})

\* The SELECT filters on the flushed rows; the objects it returns are the
\* session's own.
FifoCandidates(db, product_id, warehouse_id) ==
    SortByReceived(db,
        {i \in 1..Len(db.fbatches) :
            /\ db.fbatches[i].product_id = product_id
            /\ db.fbatches[i].storage_entity_id = warehouse_id
            /\ db.fbatches[i].current_quantity > 0
            /\ db.fbatches[i].status # "depleted"})

RECURSIVE FifoLoop(_, _, _, _, _)
FifoLoop(db, cands, item_id, quantity_needed, total_cost) ==
    IF Len(cands) = 0 \/ quantity_needed <= 0
    THEN [db |-> db, total_cost |-> total_cost]
    ELSE LET i == Head(cands)
             b == db.batches[i]
             alloc_qty == Min2(b.current_quantity, quantity_needed)
             cost_price == real_cost_price(b)
             cost_amount == Amount(alloc_qty, cost_price)
             d == [db EXCEPT
                     !.allocs = Append(@, [id |-> NewId(db.allocs),
                                           order_item_id |-> item_id,
                                           batch_id |-> b.id,
                                           quantity |-> alloc_qty,
                                           cost_price |-> cost_price,
                                           cost_amount |-> cost_amount]),
                     !.batches[i] = update_status(
                         [b EXCEPT !.current_quantity = @ - alloc_qty])]
         IN  FifoLoop(d, Tail(cands), item_id, quantity_needed - alloc_qty,
                      total_cost + cost_amount)

\* An allocation that insists on the whole line: when the line would
\* drain every candidate lot, it draws on none of them.
_allocate_batches_all_or_nothing(db, o, k, warehouse_id) ==
    LET item == db.orders[o].items[k]
        cands == FifoCandidates(db, item.product_id, warehouse_id)
        SetCost(r) ==
            IF r.total_cost > 0
            THEN [r.db EXCEPT
                    !.orders[o].items[k].cost_amount = r.total_cost,
                    !.orders[o].items[k].cost_price =
                        (r.total_cost * QtyScale) \div item.quantity]
            ELSE r.db
        Whole(r) ==
            IF \A n \in 1..Len(cands) :
                    r.db.batches[cands[n]].current_quantity = 0
            THEN db ELSE SetCost(r)
    IN  Whole(FifoLoop(db, cands, item.id, item.quantity, 0))

\* o, k: index of the order in db.orders and of the line in its items.
_allocate_batches_fifo(db, o, k, warehouse_id) ==
    LET item == db.orders[o].items[k]
        SetCost(r) ==
            IF r.total_cost > 0
            THEN [r.db EXCEPT
                    !.orders[o].items[k].cost_amount = r.total_cost,
                    !.orders[o].items[k].cost_price =
                        (r.total_cost * QtyScale) \div item.quantity]
            ELSE r.db
    IN  SetCost(FifoLoop(db,
                    FifoCandidates(db, item.product_id, warehouse_id),
                    item.id, item.quantity, 0))

(***************************************************************************)
(* Stock movements of a completion (orders/stock_ops.py).                  *)
(***************************************************************************)
is_warehouse(e) == "warehouse" \in entity_type(e)

\* One iteration of the per-line loop of handle_stock_changes for an order
\* whose warehouse checks have passed.  Returns [ok, db].
StockChangeForItem(db, o, k, clock) ==
    LET order == db.orders[o]
        item == order.items[k]
        t == order.order_type
        SetBatchId(d) ==
            [d EXCEPT !.orders[o].items[k].batch_id =
                            d.batches[Len(d.batches)].id]
        ThenFifo(r) ==
            IF ~r.ok THEN r
            ELSE [ok |-> TRUE,
                  db |-> _allocate_batches_fifo(r.db, o, k, order.source_id)]
        ThenAdd(r) ==
            IF ~r.ok THEN r
            ELSE [ok |-> TRUE,
                  db |-> add_stock(r.db, order.target_id, item.product_id,
                                   item.quantity, order.id)]
    IN  CASE t = "purchase" ->
               [ok |-> TRUE,
                db |-> add_stock(
                          SetBatchId(create_batch_from_purchase(db, order,
                                                                item, clock)),
                          order.target_id, item.product_id, item.quantity,
                          order.id)]
          [] t = "sale" ->
               ThenFifo(reduce_stock(db, order.source_id, item.product_id,
                                     item.quantity, order.id, TRUE))
          [] t = "transfer" ->
               ThenAdd(reduce_stock(db, order.source_id, item.product_id,
                                    item.quantity, order.id, TRUE))
          [] t = "return_in" ->
               [ok |-> TRUE,
                db |-> add_stock(db, order.target_id, item.product_id,
                                 item.quantity, order.id)]
          [] t = "return_out" ->
               reduce_stock(db, order.source_id, item.product_id,
                            item.quantity, order.id, TRUE)
          [] OTHER -> [ok |-> TRUE, db |-> db]

\* The loop over order.items; stops at the first line that raises.
\* Returns [ok, db, line]: line is the failing line (0 when none failed).
RECURSIVE StockChangeLoop(_, _, _, _)
StockChangeLoop(db, o, k, clock) ==
    LET Then(r) == IF ~r.ok THEN [ok |-> FALSE, db |-> r.db, line |-> k]
                   ELSE StockChangeLoop(r.db, o, k + 1, clock)
    IN  IF k > Len(db.orders[o].items)
        THEN [ok |-> TRUE, db |-> db, line |-> 0]
        ELSE Then(StockChangeForItem(db, o, k, clock))

\* Which of source/target the order type requires to be a warehouse.
NeedsSourceWarehouse(t) == t \in {"sale", "transfer", "return_out"}

NeedsTargetWarehouse(t) == t \in {"purchase", "transfer", "return_in"}

\* Returns [ok, db, line, err].
handle_stock_changes(db, o, action, clock) ==
    LET order == db.orders[o]
        source_warehouse_ok == is_warehouse(order.source_id)
        target_warehouse_ok == is_warehouse(order.target_id)
        Result(r) == [ok |-> r.ok, db |-> r.db, line |-> r.line,
                      err |-> IF r.ok THEN "none" ELSE "insufficient_stock"]
    IN  IF action # "complete"
        THEN [ok |-> TRUE, db |-> db, line |-> 0, err |-> "none"]
        ELSE IF \/ NeedsSourceWarehouse(order.order_type) /\ ~source_warehouse_ok
                \/ NeedsTargetWarehouse(order.order_type) /\ ~target_warehouse_ok
        THEN [ok |-> FALSE, db |-> db, line |-> 0, err |-> "not_warehouse"]
        ELSE Result(StockChangeLoop(db, o, 1, clock))

(***************************************************************************)
(* Cold-storage fee (orders/storage_fee.py).  Fees are in fen.             *)
(***************************************************************************)
\* 15.00 yuan per ton, in fen.
BASE_RATE_PER_TON == 1500

\* 1.5 yuan per ton per day, in fen.
STORAGE_RATE_PER_TON_PER_DAY == 150

KgPerTon == 1000

\* Days charged for a line with no lot information.
DefaultStorageDays == 7

RECURSIVE SumItems(_, _)
\* Sum of f over the lines of an order; f is "quantity", "amount", ...
SumItems(items, f) ==
    IF Len(items) = 0 THEN 0 ELSE Head(items)[f] + SumItems(Tail(items), f)

StorageDays(outbound_date, received_at) ==
    LET d == outbound_date - received_at + 1 IN IF d < 1 THEN 1 ELSE d

\* The flushed allocation rows of one order line.
BatchRecords(db, item_id) ==
    {i \in 1..Len(db.fallocs) : db.fallocs[i].order_item_id = item_id}

\* select(StockBatch) ... status == "active" order_by received_at limit 1
ActiveBatches(db, warehouse_id, product_id) ==
    {i \in 1..Len(db.fbatches) :
        /\ db.fbatches[i].storage_entity_id = warehouse_id
        /\ db.fbatches[i].product_id = product_id
        /\ db.fbatches[i].status = "active"}

\* Sum of the function f over the set S of its arguments.
RECURSIVE SumOver(_, _)
SumOver(f, S) ==
    IF S = {} THEN 0
    ELSE LET x == CHOOSE y \in S : TRUE IN f[x] + SumOver(f, S \ {x})

\* [days, weight]: the weighted days and the weight one line contributes.
ItemWeightedDays(db, order, item) ==
    LET recs == BatchRecords(db, item.id)
        BatchOf(i) == db.batches[Idx(db.batches, db.fallocs[i].batch_id)]
        known == {i \in recs : /\ HasId(db.batches, db.fallocs[i].batch_id)
                               /\ BatchOf(i).received_at # 0}
        DaysOf == [i \in known |-> db.fallocs[i].quantity
                        * StorageDays(order.order_date, BatchOf(i).received_at)]
        QtyOf == [i \in known |-> db.fallocs[i].quantity]
        act == ActiveBatches(db, order.source_id, item.product_id)
    IN  IF recs # {}
        THEN [days |-> SumOver(DaysOf, known),
              weight |-> SumOver(QtyOf, known)]
        ELSE IF act # {} /\ db.fbatches[Head(SortByReceived(db, act))].received_at # 0
        THEN [days |-> item.quantity * StorageDays(order.order_date,
                        db.fbatches[Head(SortByReceived(db, act))].received_at),
              weight |-> item.quantity]
        ELSE [days |-> item.quantity * DefaultStorageDays,
              weight |-> item.quantity]

RECURSIVE WeightedDays(_, _, _)
WeightedDays(db, order, k) ==
    LET Plus(a, b) == [days |-> a.days + b.days, weight |-> a.weight + b.weight]
    IN  IF k > Len(order.items) THEN [days |-> 0, weight |-> 0]
        ELSE Plus(ItemWeightedDays(db, order, order.items[k]),
                  WeightedDays(db, order, k + 1))

\* base fee + storage cost; avg_days = days / weight is kept exact.
_calculate_outbound_storage_fee(db, order) ==
    LET Fee(w, total_weight) ==
            IF w.weight > 0
            THEN Quantize(total_weight * (BASE_RATE_PER_TON * w.weight
                                + STORAGE_RATE_PER_TON_PER_DAY * w.days),
                          QtyScale * KgPerTon * w.weight)
            ELSE 0
    IN  Fee(WeightedDays(db, order, 1), SumItems(order.items, "quantity"))

calculate_storage_fee(db, order) ==
    IF ~order.calculate_storage_fee THEN 0
    ELSE IF order.order_type = "purchase"
    THEN Quantize(SumItems(order.items, "quantity") * BASE_RATE_PER_TON,
                  QtyScale * KgPerTon)
    ELSE IF order.order_type = "sale"
    THEN _calculate_outbound_storage_fee(db, order)
    ELSE 0

\* Stores the fee on the order; final_amount is not touched here.
update_order_storage_fee(db, o) ==
    [db EXCEPT !.orders[o].total_storage_fee =
                    calculate_storage_fee(db, db.orders[o])]

(***************************************************************************)
(* Receivables and payables of a completion (orders/account_ops.py).       *)
(***************************************************************************)
NoEntity == "NONE"

\* notes carries the component the entry was written for.
_create_single_account(db, entity_id, order_id, balance_type, amount, notes) ==
    IF amount <= 0 THEN db
    ELSE [db EXCEPT
            !.accounts = Append(@, [id |-> NewId(db.accounts),
                                    entity_id |-> entity_id,
                                    order_id |-> order_id,
                                    balance_type |-> balance_type,
                                    amount |-> amount,
                                    paid_amount |-> 0,
                                    balance |-> amount,
                                    status |-> "pending",
                                    notes |-> notes]),
            !.balance[entity_id] = IF balance_type = "receivable"
                                   THEN @ + amount ELSE @ - amount]

\* The four entries of a sale or purchase: goods_party and storage_party are
\* the order's counterparty and warehouse, goods_type the direction of goods.
LegacyEntries(db, order, goods_party, goods_type, storage_party) ==
    LET Entry(d, cond, entity_id, balance_type, amount, notes) ==
            IF cond
            THEN _create_single_account(d, entity_id, order.id, balance_type,
                                        amount, notes)
            ELSE d
    IN  Entry(
          Entry(
            Entry(
              Entry(db, order.total_amount > 0, goods_party, goods_type,
                    order.total_amount, "goods"),
              order.total_shipping > 0
                /\ order.logistics_company_id # NoEntity,
              order.logistics_company_id, "payable", order.total_shipping,
              "freight"),
            order.total_storage_fee > 0, storage_party, "payable",
            order.total_storage_fee, "storage"),
          order.other_fee > 0, MISC_EXPENSE_ENTITY_CODE, "payable",
          order.other_fee, "other")

create_account_for_legacy(db, o) ==
    LET order == db.orders[o]
        t == order.order_type
    IN  IF /\ order.total_amount <= 0 /\ order.total_shipping <= 0
           /\ order.total_storage_fee <= 0 /\ order.other_fee <= 0
        THEN db
        ELSE CASE t = "sale" ->
                    LegacyEntries(db, order, order.target_id, "receivable",
                                  order.source_id)
               [] t = "purchase" ->
                    LegacyEntries(db, order, order.source_id, "payable",
                                  order.target_id)
               [] t = "return_in" ->
                    IF order.final_amount > 0
                    THEN _create_single_account(db, order.source_id, order.id,
                            "payable", order.final_amount, "return")
                    ELSE db
               [] t = "return_out" ->
                    IF order.final_amount > 0
                    THEN _create_single_account(db, order.target_id, order.id,
                            "receivable", order.final_amount, "return")
                    ELSE db
               [] OTHER -> db

create_account_balance(db, o) == create_account_for_legacy(db, o)

(***************************************************************************)
(* Order lines (orders/core.py).                                           *)
(***************************************************************************)
\* Ids of all rows of the order-item table.
ItemIds(db) ==
    UNION {{db.orders[o].items[k].id : k \in 1..Len(db.orders[o].items)}
             : o \in 1..Len(db.orders)}

NewItemId(db) == IF ItemIds(db) = {} THEN 1 ELSE Max(ItemIds(db)) + 1

\* An OrderItem row built from a line payload.
NewOrderItem(id, item_in) ==
    [id |-> id,
     product_id |-> item_in.product_id,
     quantity |-> item_in.quantity,
     unit_price |-> item_in.unit_price,
     amount |-> Amount(item_in.quantity, item_in.unit_price),
     shipping_cost |-> item_in.shipping_cost,
     discount |-> item_in.discount,
     original_item_id |-> item_in.original_item_id,
     gross_weight |-> item_in.gross_weight,
     deduction_formula_id |-> item_in.deduction_formula_id,
     cost_price |-> 0, cost_amount |-> 0, profit |-> 0, batch_id |-> 0]

\* The explicit allocations of one sale line.  Returns [ok, db, item_cost].
RECURSIVE BatchAllocLoop(_, _, _, _, _)
BatchAllocLoop(db, item_id, batch_allocations, j, item_cost) ==
    IF j > Len(batch_allocations)
    THEN [ok |-> TRUE, db |-> db, item_cost |-> item_cost]
    ELSE LET alloc == batch_allocations[j]
         IN  IF ~HasId(db.batches, alloc.batch_id)
             THEN [ok |-> FALSE, db |-> db, item_cost |-> item_cost]
             ELSE LET i == Idx(db.batches, alloc.batch_id)
                      batch == db.batches[i]
                      cost_price == real_cost_price(batch)
                      cost_amount == Amount(alloc.quantity, cost_price)
                  IN  IF batch_available_quantity(batch) < alloc.quantity
                      THEN [ok |-> FALSE, db |-> db, item_cost |-> item_cost]
                      ELSE BatchAllocLoop(
                             [db EXCEPT
                                !.allocs = Append(@,
                                    [id |-> NewId(db.allocs),
                                     order_item_id |-> item_id,
                                     batch_id |-> batch.id,
                                     quantity |-> alloc.quantity,
                                     cost_price |-> cost_price,
                                     cost_amount |-> cost_amount]),
                                !.batches[i] = update_status(
                                    [batch EXCEPT !.current_quantity =
                                                    @ - alloc.quantity])],
                             item_id, batch_allocations, j + 1,
                             item_cost + cost_amount)

\* The loop over items_data.  Returns [ok, db].
RECURSIVE SetItemsLoop(_, _, _, _)
SetItemsLoop(db, o, items_data, n) ==
    LET item_in == items_data[n]
        order_item == NewOrderItem(NewItemId(db), item_in)
        k == Len(db.orders[o].items) + 1
        SetCost(r) ==
            IF ~r.ok THEN [ok |-> FALSE, db |-> r.db]
            ELSE SetItemsLoop(
                   [r.db EXCEPT
                      !.orders[o].items[k].cost_amount = r.item_cost,
                      !.orders[o].items[k].cost_price =
                          (r.item_cost * QtyScale) \div item_in.quantity,
                      !.orders[o].items[k].profit =
                          order_item.amount - r.item_cost],
                   o, items_data, n + 1)
        Added(d) ==
            IF Len(item_in.batch_allocations) > 0
               /\ d.orders[o].order_type = "sale"
            THEN SetCost(BatchAllocLoop(d, order_item.id,
                            item_in.batch_allocations, 1, 0))
            ELSE SetItemsLoop(d, o, items_data, n + 1)
    IN  IF n > Len(items_data) THEN [ok |-> TRUE, db |-> db]
        ELSE Added(flush([db EXCEPT
                            !.orders[o].items = Append(@, order_item)]))

\* Rows of a table that do not belong to the given order lines.
NotOfItems(rows, ids) ==
    LET Keep(r) == r.order_item_id \notin ids IN SelectSeq(rows, Keep)

\* Returns [ok, db].  The old lines and their allocation rows are deleted by
\* SQL; the lots those rows drew on are not read or written.
set_order_items(db, o, items_data) ==
    LET old == {db.orders[o].items[k].id :
                    k \in 1..Len(db.orders[o].items)}
        Totals(d, order) ==
            [d EXCEPT
                !.orders[o].total_amount = SumItems(order.items, "amount"),
                !.orders[o].total_shipping =
                    SumItems(order.items, "shipping_cost"),
                !.orders[o].final_amount =
                    SumItems(order.items, "amount")
                    + SumItems(order.items, "shipping_cost")
                    + order.total_storage_fee - order.total_discount]
        Then(r) == IF ~r.ok THEN r
                   ELSE [ok |-> TRUE, db |-> Totals(r.db, r.db.orders[o])]
    IN  IF Len(items_data) = 0 THEN [ok |-> FALSE, db |-> db]
        ELSE Then(SetItemsLoop(
                    flush([db EXCEPT !.allocs = NotOfItems(@, old),
                                     !.orders[o].items = << >>]),
                    o, items_data, 1))

(***************************************************************************)
(* Creating and editing orders (orders/crud.py).  In a payload an absent   *)
(* (None) date or id is 0, an absent entity is NoEntity and an absent      *)
(* amount is None.                                                         *)
(***************************************************************************)
None == -1

\* Entity has no attribute is_logistics: looking up a logistics company
\* raises AttributeError, which ends the request with a server error.
is_logistics_raises(logistics_company_id) == logistics_company_id # NoEntity

RECURSIVE NewItems(_, _, _)
\* The OrderItem rows create_order adds, with consecutive new ids.
NewItems(items_in, n, first_id) ==
    IF n > Len(items_in) THEN << >>
    ELSE <<NewOrderItem(first_id,
              [items_in[n] EXCEPT !.original_item_id = 0])>>
         \o NewItems(items_in, n + 1, first_id + 1)

\* Returns [ok, db].
create_order(db, order_in, clock) ==
    IF \/ order_in.source_id \notin EntityIds
       \/ order_in.target_id \notin EntityIds
       \/ is_logistics_raises(order_in.logistics_company_id)
    THEN [ok |-> FALSE, db |-> db]
    ELSE LET business_date ==
                 \* loading_date is never sent, so a sale falls through to
                 \* order_date; every other type prefers unloading_date.
                 IF order_in.order_type # "sale" /\ order_in.unloading_date # 0
                 THEN order_in.unloading_date
                 ELSE IF order_in.order_date # 0 THEN order_in.order_date
                 ELSE clock
             items == NewItems(order_in.items, 1, NewItemId(db))
             total_amount == SumItems(items, "amount")
             total_shipping == IF order_in.total_shipping > 0
                               THEN order_in.total_shipping
                               ELSE SumItems(items, "shipping_cost")
         IN  [ok |-> TRUE,
              db |-> [db EXCEPT !.orders = Append(@,
                 [id |-> NewId(db.orders),
                  order_type |-> order_in.order_type,
                  status |-> "draft",
                  source_id |-> order_in.source_id,
                  target_id |-> order_in.target_id,
                  logistics_company_id |-> order_in.logistics_company_id,
                  order_date |-> business_date,
                  unloading_date |-> order_in.unloading_date,
                  total_amount |-> total_amount,
                  total_shipping |-> total_shipping,
                  total_storage_fee |-> order_in.total_storage_fee,
                  other_fee |-> order_in.other_fee,
                  total_discount |-> order_in.total_discount,
                  final_amount |-> total_amount + total_shipping
                                   + order_in.total_storage_fee
                                   + order_in.other_fee
                                   - order_in.total_discount,
                  calculate_storage_fee |-> order_in.calculate_storage_fee,
                  related_order_id |-> 0,
                  completed_at |-> 0,
                  items |-> items])]]

\* The basic fields update_order copies from the payload while the order is
\* a draft.
UpdateBasicFields(order, order_in) ==
    [order EXCEPT
        !.total_discount = IF order_in.total_discount # None
                           THEN order_in.total_discount ELSE @,
        !.total_shipping = IF order_in.total_shipping # None
                           THEN order_in.total_shipping ELSE @,
        !.total_storage_fee = IF order_in.total_storage_fee # None
                              THEN order_in.total_storage_fee ELSE @,
        !.other_fee = IF order_in.other_fee # None
                      THEN order_in.other_fee ELSE @]

\* The fees update_order writes again after set_order_items, draft or not.
ReapplyFees(order, order_in) ==
    [order EXCEPT
        !.total_shipping = IF order_in.total_shipping # None
                           THEN order_in.total_shipping ELSE @,
        !.total_storage_fee = IF order_in.total_storage_fee # None
                              THEN order_in.total_storage_fee ELSE @,
        !.other_fee = IF order_in.other_fee # None
                      THEN order_in.other_fee ELSE @]

\* Returns [ok, db].  order_in.items_given tells a payload with lines from
\* one whose items field is absent.
update_order(db, order_id, order_in) ==
    LET o == Idx(db.orders, order_id)
        allow_basic_fields == db.orders[o].status = "draft"
        Final(order) ==
            order.total_amount + order.total_shipping
            + order.total_storage_fee + order.other_fee
            - order.total_discount
        Refee(d) == [d EXCEPT !.orders[o] = ReapplyFees(@, order_in)]
        Total(d) == [d EXCEPT !.orders[o].final_amount = Final(d.orders[o])]
        Then(r) == IF ~r.ok THEN [ok |-> FALSE, db |-> r.db]
                   ELSE [ok |-> TRUE, db |-> Total(Refee(r.db))]
        Items(d) == IF order_in.items_given
                    THEN set_order_items(d, o, order_in.items)
                    ELSE [ok |-> allow_basic_fields, db |-> d]
    IN  IF ~HasId(db.orders, order_id) THEN [ok |-> FALSE, db |-> db]
        ELSE Then(Items(IF allow_basic_fields
                        THEN [db EXCEPT !.orders[o] =
                                    UpdateBasicFields(@, order_in)]
                        ELSE db))

(***************************************************************************)
(* Order actions (orders/actions.py).                                      *)
(***************************************************************************)
\* (value * qty / total_qty).quantize(0.01)
_scale_value(value, qty, total_qty) ==
    IF value = 0 \/ total_qty <= 0 THEN 0
    ELSE Quantize(value * qty, total_qty)

\* Quantity already taken back from an original line: the lines of every
\* order that is not cancelled and that name it as their original.
_get_returned_map(db, original_item_id) ==
    LET Rows(o) == {k \in 1..Len(db.orders[o].items) :
                      db.orders[o].items[k].original_item_id = original_item_id}
        live == {o \in 1..Len(db.orders) : db.orders[o].status # "cancelled"}
        QtyOf == [o \in live |->
                    SumOver([k \in Rows(o) |-> db.orders[o].items[k].quantity],
                            Rows(o))]
    IN  SumOver(QtyOf, live)

RECURSIVE DefaultTargets(_, _, _)
\* With no payload every line is returned in full, as far as it still can be.
DefaultTargets(db, items, k) ==
    IF k > Len(items) THEN << >>
    ELSE LET available == items[k].quantity
                            - _get_returned_map(db, items[k].id)
         IN  (IF available > 0
              THEN <<[order_item_id |-> items[k].id, quantity |-> available]>>
              ELSE << >>)
             \o DefaultTargets(db, items, k + 1)

HasItem(items, id) == \E k \in 1..Len(items) : items[k].id = id

ItemById(items, id) == items[CHOOSE k \in 1..Len(items) : items[k].id = id]

RECURSIVE TotalReturnAmount(_, _, _)
TotalReturnAmount(items, targets, n) ==
    IF n > Len(targets) THEN 0
    ELSE (IF HasItem(items, targets[n].order_item_id)
          THEN Amount(targets[n].quantity,
                      ItemById(items, targets[n].order_item_id).unit_price)
          ELSE 0)
         + TotalReturnAmount(items, targets, n + 1)

\* The loop over targets.  Returns [ok, items].  returned_map holds a
\* Decimal for a line that earlier return orders name (the SUM of a DECIMAL
\* column) and, once a target of this request has been counted, a float
\* (ReturnItemInput.quantity) for a line that none names.  Decimal and
\* float do not add or subtract (TypeError): a target fails when its line
\* has rows of earlier returns, or when an earlier target of the request
\* named the same line.
RECURSIVE ReturnItemsLoop(_, _, _, _, _, _, _)
ReturnItemsLoop(db, items, targets, n, total_return_shipping, total, acc) ==
    IF n > Len(targets) THEN [ok |-> TRUE, items |-> acc]
    ELSE IF ~HasItem(items, targets[n].order_item_id)
    THEN [ok |-> FALSE, items |-> acc]
    ELSE LET t == targets[n]
             original == ItemById(items, t.order_item_id)
             earlier == {m \in 1..(n - 1) :
                            targets[m].order_item_id = original.id}
             Q == [m \in earlier |-> targets[m].quantity]
             available == original.quantity
                            - _get_returned_map(db, original.id)
                            - SumOver(Q, earlier)
             item_shipping ==
                 IF total > 0
                 THEN (total_return_shipping
                        * Amount(t.quantity, original.unit_price)) \div total
                 ELSE _scale_value(original.shipping_cost, t.quantity,
                                   original.quantity)
             named == \E o \in 1..Len(db.orders) :
                        /\ db.orders[o].status # "cancelled"
                        /\ \E k \in 1..Len(db.orders[o].items) :
                              db.orders[o].items[k].original_item_id
                                 = original.id
         IN  IF earlier # {} THEN [ok |-> FALSE, items |-> acc]
             ELSE IF available <= 0 \/ t.quantity > available
             THEN [ok |-> FALSE, items |-> acc]
             ELSE IF named THEN [ok |-> FALSE, items |-> acc]
             ELSE ReturnItemsLoop(db, items, targets, n + 1,
                    total_return_shipping, total,
                    Append(acc,
                       [product_id |-> original.product_id,
                        quantity |-> t.quantity,
                        unit_price |-> original.unit_price,
                        shipping_cost |-> item_shipping,
                        discount |-> _scale_value(original.discount,
                                        t.quantity, original.quantity),
                        original_item_id |-> original.id,
                        gross_weight |-> 0, deduction_formula_id |-> 0,
                        batch_allocations |-> << >>]))

\* Returns [ok, items]: the line payloads of the return order.
_prepare_return_items(db, order, payloads, total_return_shipping) ==
    LET Prepare(targets) ==
            IF Len(targets) = 0 THEN [ok |-> FALSE, items |-> << >>]
            ELSE ReturnItemsLoop(db, order.items, targets, 1,
                    total_return_shipping,
                    TotalReturnAmount(order.items, targets, 1), << >>)
    IN  Prepare(IF Len(payloads) > 0 THEN payloads
                ELSE DefaultTargets(db, order.items, 1))

\* Returns [ok, db].  Only a sale or a purchase has a return type; for any
\* other order nothing is created.
_auto_create_return_order(db, o, action_in, clock) ==
    LET order == db.orders[o]
        new_order == [id |-> NewId(db.orders),
                      order_type |-> IF order.order_type = "sale"
                                     THEN "return_in" ELSE "return_out",
                      status |-> "draft",
                      source_id |-> order.target_id,
                      target_id |-> IF action_in.return_target_id # NoEntity
                                    THEN action_in.return_target_id
                                    ELSE order.source_id,
                      logistics_company_id |-> NoEntity,
                      order_date |-> IF action_in.return_date # 0
                                     THEN action_in.return_date ELSE clock,
                      unloading_date |-> 0,
                      total_amount |-> 0,
                      total_shipping |-> 0,
                      total_storage_fee |-> 0,
                      other_fee |-> 0,
                      total_discount |-> 0,
                      final_amount |-> 0,
                      calculate_storage_fee |-> TRUE,
                      related_order_id |-> order.id,
                      completed_at |-> 0,
                      items |-> << >>]
        SetItems(d, p) == IF ~p.ok THEN [ok |-> FALSE, db |-> d]
                          ELSE set_order_items(d, Len(d.orders), p.items)
        Created(d) == SetItems(d, _prepare_return_items(d, order,
                                    action_in.return_items,
                                    action_in.return_shipping))
    IN  IF order.order_type \notin {"sale", "purchase"}
        THEN [ok |-> TRUE, db |-> db]
        ELSE Created(flush([db EXCEPT !.orders = Append(@, new_order)]))

\* A table that would also accept complete on a completed order.
transitions_lax == [complete |-> [from |-> {"draft", "completed"},
                                  to |-> "completed"],
                    return |-> [from |-> {"completed"}, to |-> "none"]]

\* The legal actions and the statuses each is legal from.
transitions == [complete |-> [from |-> {"draft"}, to |-> "completed"],
                return |-> [from |-> {"completed"}, to |-> "none"]]

\* The body of the handler up to, and without, its commit.
\* Returns [ok, db, err, line]: db is the session's state when the handler
\* returned or raised, err names the exception, line the order line at
\* which the stock step raised.
change_order_status(db, order_id, action_in, clock) ==
    LET Fail(d, e, l) == [ok |-> FALSE, db |-> d, err |-> e, line |-> l]
        action == action_in.action
        o == Idx(db.orders, order_id)
        Completed(d) ==
            [ok |-> TRUE,
             db |-> [d EXCEPT !.orders[o].status = "completed",
                              !.orders[o].completed_at = clock],
             err |-> "none", line |-> 0]
        AfterStock(r) ==
            IF ~r.ok THEN Fail(r.db, r.err, r.line)
            ELSE IF action = "complete"
            THEN Completed(create_account_balance(
                              update_order_storage_fee(r.db, o), o))
            ELSE [ok |-> TRUE, db |-> r.db, err |-> "none", line |-> 0]
        AfterReturn(r) ==
            IF ~r.ok THEN Fail(r.db, "return_rejected", 0)
            ELSE AfterStock(handle_stock_changes(r.db, o, action, clock))
    IN  IF ~HasId(db.orders, order_id) THEN Fail(db, "not_found", 0)
        ELSE IF action \notin DOMAIN transitions
        THEN Fail(db, "invalid_action", 0)
        ELSE IF db.orders[o].status \notin transitions[action].from
        THEN Fail(db, "invalid_status", 0)
        ELSE IF action = "return" /\ action_in.return_shipping = None
        THEN Fail(db, "shipping_required", 0)
        ELSE AfterReturn(IF action = "return"
                         THEN _auto_create_return_order(db, o, action_in,
                                                        clock)
                         ELSE [ok |-> TRUE, db |-> db])

(***************************************************************************)
(* The stock endpoints (stocks.py, initial_data.py).  Each returns         *)
(* [ok, db].                                                               *)
(***************************************************************************)
\* POST /stocks/{stock_id}/adjust: stock taking sets the quantity.
adjust_stock(db, stock_id, new_quantity) ==
    LET Set(i, old) ==
            IF new_quantity - old = 0 THEN [ok |-> FALSE, db |-> db]
            ELSE [ok |-> TRUE,
                  db |-> [db EXCEPT
                     !.stocks[i].quantity = new_quantity,
                     !.flows = Append(@, StockFlow(db, stock_id, 0, "adjust",
                                    new_quantity - old, old, "manual", 0))]]
        At(i) == Set(i, db.stocks[i].quantity)
    IN  IF ~HasId(db.stocks, stock_id) THEN [ok |-> FALSE, db |-> db]
        ELSE At(Idx(db.stocks, stock_id))

\* POST /stocks/flows/{flow_id}/revert: undo one manual adjustment.
revert_stock_flow(db, flow_id) ==
    LET Fail == [ok |-> FALSE, db |-> db]
        Revert(f, i, old) ==
            IF old - f.quantity_change < 0 THEN Fail
            ELSE [ok |-> TRUE,
                  db |-> [db EXCEPT
                     !.stocks[i].quantity = old - f.quantity_change,
                     !.flows = Append(@, StockFlow(db, f.stock_id, 0, "adjust",
                                    -f.quantity_change, old, "revert", f.id))]]
        OnStock(f, i) == Revert(f, i, db.stocks[i].quantity)
        Check(f) ==
            IF f.flow_type # "adjust" THEN Fail
            ELSE IF f.order_id # 0 THEN Fail
            ELSE IF f.reason = "recalc" THEN Fail
            ELSE IF f.reason = "revert" THEN Fail
            ELSE IF \E j \in 1..Len(db.flows) :
                       db.flows[j].reason = "revert" /\ db.flows[j].ref = flow_id
            THEN Fail
            ELSE IF ~HasId(db.stocks, f.stock_id) THEN Fail
            ELSE OnStock(f, Idx(db.stocks, f.stock_id))
    IN  IF ~HasId(db.flows, flow_id) THEN Fail
        ELSE Check(db.flows[Idx(db.flows, flow_id)])

\* POST /initial-data/stock: opening stock of a product in a warehouse.
create_initial_stock(db, warehouse_id, product_id, quantity) ==
    LET Existing(i, old) ==
            [db EXCEPT
               !.stocks[i].quantity = quantity,
               !.flows = IF old # quantity
                         THEN Append(@, StockFlow(db, db.stocks[i].id, 0,
                                  "initial", quantity - old, old, "initial", 0))
                         ELSE @]
        Created(d, i) ==
            [d EXCEPT
               !.stocks[i].quantity = quantity,
               !.flows = IF quantity > 0
                         THEN Append(@, StockFlow(d, d.stocks[i].id, 0,
                                  "initial", quantity, 0, "initial", 0))
                         ELSE @]
        New(d) == Created(d, StockIdx(d, warehouse_id, product_id))
    IN  IF ~is_warehouse(warehouse_id) THEN [ok |-> FALSE, db |-> db]
        ELSE IF HasStock(db, warehouse_id, product_id)
        THEN [ok |-> TRUE,
              db |-> Existing(StockIdx(db, warehouse_id, product_id),
                       db.stocks[StockIdx(db, warehouse_id, product_id)].quantity)]
        ELSE [ok |-> TRUE, db |-> New(get_or_create_stock(db, warehouse_id,
                                                          product_id))]

\* The rows of a table that pass a test, in their order.
RECURSIVE SelectRows(_, _)
SelectRows(rows, keep) ==
    IF Len(rows) = 0 THEN << >>
    ELSE IF Head(rows).id \in keep
    THEN <<Head(rows)>> \o SelectRows(Tail(rows), keep)
    ELSE SelectRows(Tail(rows), keep)

\* POST /stocks/cleanup-empty?confirm=true: delete the empty rows and their
\* flows.
cleanup_empty_stocks(db) ==
    LET empty == {db.stocks[i].id : i \in {j \in 1..Len(db.stocks) :
                        /\ db.stocks[j].quantity = 0
                        /\ db.stocks[j].reserved_quantity = 0}}
        kept_stocks == {db.stocks[i].id : i \in 1..Len(db.stocks)} \ empty
        kept_flows == {db.flows[i].id : i \in {j \in 1..Len(db.flows) :
                        db.flows[j].stock_id \notin empty}}
    IN  [ok |-> TRUE,
         db |-> [db EXCEPT !.stocks = SelectRows(@, kept_stocks),
                           !.flows = SelectRows(@, kept_flows)]]

\* The quantity of product p on the lines of an order.
LineQuantity(order, p) ==
    LET ks == {k \in 1..Len(order.items) : order.items[k].product_id = p}
    IN  SumOver([k \in ks |-> order.items[k].quantity], ks)

\* The rows of the UNION ALL that fall on warehouse w: inbound legs of
\* completed orders, outbound legs of orders under way or completed, and
\* reservations of confirmed orders.
InLeg(order, w) ==
    /\ order.order_type \in {"purchase", "return_in", "transfer"}
    /\ order.status = "completed"
    /\ order.target_id = w

OutLeg(order, w) ==
    /\ order.order_type \in {"sale", "transfer", "return_out"}
    /\ order.status \in {"shipping", "completed"}
    /\ order.source_id = w

ReservedLeg(order, w) ==
    /\ order.order_type \in {"sale", "transfer", "return_out"}
    /\ order.status = "confirmed"
    /\ order.source_id = w

\* {(warehouse_id, product_id): {"quantity": N, "reserved": M}} over the
\* entities whose type is exactly "warehouse".
_calculate_stock_from_orders_optimized(db) ==
    LET warehouse_ids == {e \in EntityIds : entity_type(e) = {"warehouse"}}
        os == 1..Len(db.orders)
        Has(o, p) == \E k \in 1..Len(db.orders[o].items) :
                        db.orders[o].items[k].product_id = p
        keys == {key \in warehouse_ids \X Products :
                    \E o \in os :
                        /\ Has(o, key[2])
                        /\ \/ InLeg(db.orders[o], key[1])
                           \/ OutLeg(db.orders[o], key[1])
                           \/ ReservedLeg(db.orders[o], key[1])}
        Qty(key) ==
            SumOver([o \in os |->
                (IF InLeg(db.orders[o], key[1])
                 THEN LineQuantity(db.orders[o], key[2]) ELSE 0)
                - (IF OutLeg(db.orders[o], key[1])
                   THEN LineQuantity(db.orders[o], key[2]) ELSE 0)], os)
        Reserved(key) ==
            SumOver([o \in os |->
                IF ReservedLeg(db.orders[o], key[1])
                THEN LineQuantity(db.orders[o], key[2]) ELSE 0], os)
    IN  [key \in keys |-> [quantity |-> IntTrunc(Qty(key)),
                           reserved |-> IntTrunc(Reserved(key))]]

\* The (warehouse_id, product_id) of the stock rows.
_get_existing_stocks_map(db) ==
    {<<db.stocks[i].warehouse_id, db.stocks[i].product_id>> :
        i \in 1..Len(db.stocks)}

\* A variant that would also count the corrections of earlier recalculations.
_get_manual_adjustments_all(db) ==
    LET fs(key) == {j \in 1..Len(db.flows) :
                      /\ db.flows[j].flow_type = "adjust"
                      /\ db.flows[j].order_id = 0
                      /\ HasId(db.stocks, db.flows[j].stock_id)
                      /\ db.stocks[Idx(db.stocks, db.flows[j].stock_id)]
                            .warehouse_id = key[1]
                      /\ db.stocks[Idx(db.stocks, db.flows[j].stock_id)]
                            .product_id = key[2]}
        Total(key) == SumOver([j \in fs(key) |-> db.flows[j].quantity_change],
                              fs(key))
        keys == {key \in _get_existing_stocks_map(db) :
                    fs(key) # {} /\ Total(key) # 0}
    IN  [key \in keys |-> IntTrunc(Total(key))]

\* {(warehouse_id, product_id): total} of the manual adjustments: the flows
\* of type adjust with no order whose reason is not that of a recalculation.
_get_manual_adjustments(db) ==
    LET fs(key) == {j \in 1..Len(db.flows) :
                      /\ db.flows[j].flow_type = "adjust"
                      /\ db.flows[j].order_id = 0
                      /\ db.flows[j].reason # "recalc"
                      /\ HasId(db.stocks, db.flows[j].stock_id)
                      /\ db.stocks[Idx(db.stocks, db.flows[j].stock_id)]
                            .warehouse_id = key[1]
                      /\ db.stocks[Idx(db.stocks, db.flows[j].stock_id)]
                            .product_id = key[2]}
        Total(key) == SumOver([j \in fs(key) |-> db.flows[j].quantity_change],
                              fs(key))
        keys == {key \in _get_existing_stocks_map(db) :
                    fs(key) # {} /\ Total(key) # 0}
    IN  [key \in keys |-> IntTrunc(Total(key))]

\* The set every recalculation walks: all_keys.
all_keys(db) ==
    (DOMAIN _calculate_stock_from_orders_optimized(db))
        \cup _get_existing_stocks_map(db)
        \cup (DOMAIN _get_manual_adjustments(db))

\* The orders in which a set can be walked.
Orderings(S) ==
    {s \in [1..Cardinality(S) -> S] :
        \A i, j \in 1..Cardinality(S) : i # j => s[i] # s[j]}

\* for key in all_keys: db is the database as read, d the session.
RECURSIVE RecalcLoop(_, _, _, _, _)
RecalcLoop(db, d, calculated, manual_adjustments, keys) ==
    LET key == Head(keys)
        expected_qty ==
            (IF key \in DOMAIN calculated THEN calculated[key].quantity ELSE 0)
            + (IF key \in DOMAIN manual_adjustments
               THEN manual_adjustments[key] ELSE 0)
        expected_reserved ==
            IF key \in DOMAIN calculated THEN calculated[key].reserved ELSE 0
        Update(i, old) ==
            [d EXCEPT
               !.stocks[i].quantity = expected_qty,
               !.stocks[i].reserved_quantity = expected_reserved,
               !.flows = IF old # expected_qty
                         THEN Append(@, StockFlow(d, d.stocks[i].id, 0,
                                "adjust", expected_qty - old, old, "recalc", 0))
                         ELSE @]
        Existing(i) ==
            IF \/ d.stocks[i].quantity # expected_qty
               \/ d.stocks[i].reserved_quantity # expected_reserved
            THEN Update(i, d.stocks[i].quantity)
            ELSE d
        Step ==
            IF HasStock(db, key[1], key[2])
            THEN Existing(StockIdx(db, key[1], key[2]))
            ELSE IF expected_qty # 0 \/ expected_reserved # 0
            THEN [d EXCEPT !.stocks = Append(@,
                    [id |-> NewId(d.stocks), warehouse_id |-> key[1],
                     product_id |-> key[2], quantity |-> expected_qty,
                     reserved_quantity |-> expected_reserved])]
            ELSE d
    IN  IF Len(keys) = 0 THEN d
        ELSE RecalcLoop(db, Step, calculated, manual_adjustments, Tail(keys))

\* POST /stocks/recalculate: expected = stock from orders + manual
\* adjustments; keys is the order in which the set all_keys is walked.
recalculate_all_stocks(db, keys) ==
    [ok |-> TRUE,
     db |-> RecalcLoop(db, db, _calculate_stock_from_orders_optimized(db),
                       _get_manual_adjustments(db), keys)]

(***************************************************************************)
(* Regeneration of the account entries (system.py).                        *)
(***************************************************************************)
\* ORDER BY completed_at over the completed orders that carry accounts.
RECURSIVE CompletedInOrder(_, _)
CompletedInOrder(db, S) ==
    IF S = {} THEN << >>
    ELSE LET i == CHOOSE x \in S : \A y \in S :
                    \/ db.orders[x].completed_at < db.orders[y].completed_at
                    \/ /\ db.orders[x].completed_at = db.orders[y].completed_at
                       /\ db.orders[x].id <= db.orders[y].id
         IN  <<i>> \o CompletedInOrder(db, S \ {i})

\* for order in orders: one entry of final_amount per order.
RECURSIVE RegenerateLoop(_, _)
RegenerateLoop(d, os) ==
    LET order == d.orders[Head(os)]
        t == order.order_type
        balance_type == IF t \in {"sale", "return_in"} THEN "receivable"
                        ELSE "payable"
        entity_id == IF t \in {"sale", "return_out"} THEN order.target_id
                     ELSE order.source_id
        amount == IF t \in {"return_in", "return_out"}
                  THEN -order.final_amount ELSE order.final_amount
        Entry ==
            [d EXCEPT
               !.accounts = Append(@, [id |-> NewId(d.accounts),
                                       entity_id |-> entity_id,
                                       order_id |-> order.id,
                                       balance_type |-> balance_type,
                                       amount |-> amount,
                                       paid_amount |-> 0,
                                       balance |-> amount,
                                       status |-> IF amount > 0 THEN "pending"
                                                  ELSE "paid",
                                       notes |-> "recalc"]),
               !.balance[entity_id] = IF balance_type = "receivable"
                                      THEN @ + amount ELSE @ - amount]
    IN  IF Len(os) = 0 THEN d
        ELSE IF order.final_amount <= 0 \/ entity_id = NoEntity
        THEN RegenerateLoop(d, Tail(os))
        ELSE RegenerateLoop(Entry, Tail(os))

\* POST /system/recalculate-accounts?confirm=true
recalculate_all_accounts(db) ==
    IF Len(db.payments) > 0 THEN [ok |-> FALSE, db |-> db]
    ELSE
    [ok |-> TRUE,
     db |-> RegenerateLoop(
              [db EXCEPT !.accounts = << >>,
                         !.balance = [e \in EntityIds |-> 0]],
              CompletedInOrder(db,
                {i \in 1..Len(db.orders) :
                    /\ db.orders[i].status = "completed"
                    /\ db.orders[i].order_type \in
                          {"purchase", "sale", "return_in", "return_out"}}))]

(***************************************************************************)
(* Deleting an order (orders/crud.py, orders/stock_ops.py).                *)
(***************************************************************************)
\* One leg of the reversal: every line of the order is taken out of
\* (outbound) or put back into warehouse w.
RECURSIVE RollbackLeg(_, _, _, _, _)
RollbackLeg(db, order, k, w, outbound) ==
    LET item == order.items[k]
    IN  IF k > Len(order.items) THEN db
        ELSE IF outbound
        THEN RollbackLeg(reduce_stock(db, w, item.product_id, item.quantity,
                                      order.id, FALSE).db,
                         order, k + 1, w, outbound)
        ELSE RollbackLeg(add_stock(db, w, item.product_id, item.quantity,
                                   order.id),
                         order, k + 1, w, outbound)

\* rollback_stock_for_delete: stock rows only; lots and allocation rows are
\* not touched.
rollback_stock_for_delete(db, order) ==
    LET t == order.order_type
        Source(d) == IF is_warehouse(order.source_id)
                     THEN RollbackLeg(d, order, 1, order.source_id, FALSE)
                     ELSE d
        Target(d) == IF is_warehouse(order.target_id)
                     THEN RollbackLeg(d, order, 1, order.target_id, TRUE)
                     ELSE d
    IN  IF order.status # "completed" THEN db
        ELSE CASE t \in {"purchase", "return_in"} -> Target(db)
               [] t \in {"sale", "return_out"} -> Source(db)
               [] t = "transfer" -> Target(Source(db))
               [] OTHER -> db

\* DELETE /orders/{order_id}.  Returns [ok, db].  An order that is not a
\* draft is refused before anything is read of its entries.  The lines go
\* with the order; an allocation row of a line has a NOT NULL order_item_id
\* and no delete cascade, so a draft that holds such rows cannot be deleted.
\* Stock rows left empty and without flows are deleted with the order.
delete_order(db, order_id) ==
    LET order == db.orders[Idx(db.orders, order_id)]
        own == {i \in 1..Len(db.accounts) :
                    db.accounts[i].order_id = order_id}
        account == db.accounts[CHOOSE i \in own : TRUE]
        item_ids == {order.items[k].id : k \in 1..Len(order.items)}
        WithoutAccount(d) ==
            IF own = {} THEN d
            ELSE [d EXCEPT
                    !.accounts = SelectRows(@, {@[i].id : i \in 1..Len(@)}
                                               \ {account.id}),
                    !.balance[account.entity_id] =
                        IF account.balance_type = "receivable"
                        THEN @ - account.amount ELSE @ + account.amount]
        Rolled(d) == IF order.status # "draft"
                     THEN rollback_stock_for_delete(d, order) ELSE d
        Removed(d) ==
            [d EXCEPT
               !.flows = SelectRows(@, {@[i].id : i \in {j \in 1..Len(@) :
                                            @[j].order_id # order_id}}),
               !.orders = SelectRows(@, {@[i].id : i \in 1..Len(@)}
                                        \ {order_id})]
        Swept(d) ==
            [d EXCEPT !.stocks = SelectRows(@,
               {@[i].id : i \in {j \in 1..Len(@) :
                    \/ @[j].quantity # 0
                    \/ @[j].reserved_quantity # 0
                    \/ \E f \in 1..Len(d.flows) :
                          d.flows[f].stock_id = @[j].id}})]
    IN  IF ~HasId(db.orders, order_id) THEN [ok |-> FALSE, db |-> db]
        ELSE IF order.status # "draft" THEN [ok |-> FALSE, db |-> db]
        ELSE IF Cardinality(own) > 1 THEN [ok |-> FALSE, db |-> db]
        ELSE IF /\ own # {}
                /\ \E i \in 1..Len(db.payments) :
                      db.payments[i].account_balance_id = account.id
        THEN [ok |-> FALSE, db |-> db]
        ELSE IF \E i \in 1..Len(db.allocs) :
                   db.allocs[i].order_item_id \in item_ids
        THEN [ok |-> FALSE, db |-> db]
        ELSE [ok |-> TRUE, db |-> Swept(Removed(Rolled(WithoutAccount(db))))]

(***************************************************************************)
(* Payments against account entries (endpoints/payments.py, accounts.py).  *)
(* A payment is [id, entity_id, account_balance_id, payment_type, amount]; *)
(* account_balance_id 0 is a payment linked to no entry.  Amounts are      *)
(* whole fen.  Payment methods and their proxy balances are left out: they *)
(* touch no account entry.                                                 *)
(***************************************************************************)
\* An entry whose status is left as it was when the amounts change.
recalculate_stale(a) ==
    [a EXCEPT !.balance = Max({a.amount - a.paid_amount, 0})]

\* AccountBalance.recalculate
recalculate(a) ==
    LET owed == a.amount - a.paid_amount
    IN  IF owed <= 0
        THEN [a EXCEPT !.status = "paid", !.balance = 0]
        ELSE IF a.paid_amount > 0
        THEN [a EXCEPT !.status = "partial", !.balance = owed]
        ELSE [a EXCEPT !.status = "pending", !.balance = owed]

\* POST /payments/
create_payment(db, payment_in) ==
    LET id == payment_in.account_balance_id
        Linked == id # 0
        account == db.accounts[Idx(db.accounts, id)]
        Rejected ==
            \/ payment_in.entity_id \notin EntityIds
            \/ /\ Linked
               /\ \/ ~HasId(db.accounts, id)
                  \/ account.status \in {"paid", "cancelled"}
                  \/ /\ payment_in.payment_type = "receive"
                     /\ account.balance_type # "receivable"
                  \/ /\ payment_in.payment_type = "pay"
                     /\ account.balance_type # "payable"
                  \/ payment_in.amount > account.balance
        payment == [id |-> NewId(db.payments),
                    entity_id |-> payment_in.entity_id,
                    account_balance_id |-> id,
                    payment_type |-> payment_in.payment_type,
                    amount |-> payment_in.amount]
        Paid(d) ==
            IF Linked
            THEN [d EXCEPT !.accounts[Idx(db.accounts, id)] =
                     recalculate([@ EXCEPT !.paid_amount =
                                              @ + payment_in.amount])]
            ELSE d
    IN  IF Rejected THEN [ok |-> FALSE, db |-> db]
        ELSE [ok |-> TRUE,
              db |-> [Paid(db) EXCEPT
                        !.payments = Append(@, payment),
                        !.balance[payment_in.entity_id] =
                            IF payment_in.payment_type = "receive"
                            THEN @ - payment_in.amount
                            ELSE @ + payment_in.amount]]

\* DELETE /payments/{payment_id}
delete_payment(db, payment_id) ==
    LET payment == db.payments[Idx(db.payments, payment_id)]
        id == payment.account_balance_id
        Unpaid(d) ==
            IF HasId(db.accounts, id)
            THEN [d EXCEPT !.accounts[Idx(db.accounts, id)] =
                     recalculate([@ EXCEPT !.paid_amount =
                                              @ - payment.amount])]
            ELSE d
    IN  IF ~HasId(db.payments, payment_id) THEN [ok |-> FALSE, db |-> db]
        ELSE [ok |-> TRUE,
              db |-> [Unpaid(db) EXCEPT
                        !.payments = SelectRows(@,
                            {@[i].id : i \in 1..Len(@)} \ {payment_id}),
                        !.balance[payment.entity_id] =
                            IF payment.payment_type = "receive"
                            THEN @ + payment.amount
                            ELSE @ - payment.amount]]

\* POST /accounts/{account_id}/cancel
cancel_account(db, account_id) ==
    LET account == db.accounts[Idx(db.accounts, account_id)]
    IN  IF \/ ~HasId(db.accounts, account_id)
           \/ account.status = "paid"
           \/ account.paid_amount > 0
        THEN [ok |-> FALSE, db |-> db]
        ELSE [ok |-> TRUE,
              db |-> [db EXCEPT !.accounts[Idx(db.accounts, account_id)]
                                    .status = "cancelled"]]

(***************************************************************************)
(* Requests.  A request runs its handler on the committed database in a    *)
(* session of its own (core/deps.py); what the handler left uncommitted    *)
(* when it raised is discarded with the session.                           *)
(***************************************************************************)
\* A session that would keep what a failed handler left behind.
get_db_keep(db, r) == r.db

\* The database at rest after a request whose handler returned r.
get_db(db, r) == IF r.ok THEN r.db ELSE db

Store(d) ==
    /\ orders' = d.orders
    /\ stocks' = d.stocks
    /\ flows' = d.flows
    /\ batches' = d.batches
    /\ allocs' = d.allocs
    /\ accounts' = d.accounts
    /\ balance' = d.balance
    /\ payments' = d.payments

Op(op, id, action, r) ==
    [op |-> op, id |-> id, action |-> action, ok |-> r.ok,
     err |-> r.err, line |-> r.line]

Plain(ok) == [ok |-> ok, err |-> "none", line |-> 0]

Line(q, p) ==
    [product_id |-> 1, quantity |-> q, unit_price |-> p, shipping_cost |-> 0,
     discount |-> 0, original_item_id |-> 0, gross_weight |-> 0,
     deduction_formula_id |-> 0, batch_allocations |-> << >>]

\* A purchase line weighed on arrival: gross weight and deduction formula.
WeighedLine(q, p, gross_weight, deduction_formula_id) ==
    [Line(q, p) EXCEPT !.gross_weight = gross_weight,
                       !.deduction_formula_id = deduction_formula_id]

LineFrom(q, p, batch_id) ==
    [Line(q, p) EXCEPT !.batch_allocations =
                            <<[batch_id |-> batch_id, quantity |-> q]>>]

OrderIn(t, source_id, target_id, items) ==
    [order_type |-> t, source_id |-> source_id, target_id |-> target_id,
     logistics_company_id |-> NoEntity, order_date |-> 1,
     unloading_date |-> 0, total_shipping |-> 0, total_storage_fee |-> 0,
     other_fee |-> 0, total_discount |-> 0, calculate_storage_fee |-> TRUE,
     items |-> items]

UpdateIn(items_given, items) ==
    [total_discount |-> None, total_shipping |-> None,
     total_storage_fee |-> None, other_fee |-> None,
     items_given |-> items_given, items |-> items]

ActionIn(action, return_shipping) ==
    [action |-> action, return_shipping |-> return_shipping,
     return_target_id |-> NoEntity, return_date |-> 0,
     return_items |-> << >>]

\* The order a request named, as it was before the request.
Target(id) == orders[Idx(orders, id)]

Init ==
    /\ orders = << >> /\ stocks = << >> /\ flows = << >>
    /\ batches = << >> /\ allocs = << >> /\ accounts = << >>
    /\ balance = [e \in EntityIds |-> 0]
    /\ payments = << >>
    /\ now = 1
    /\ sessions = << >>
    /\ lastOp = [op |-> "init", id |-> 0, action |-> "none", ok |-> TRUE,
                 err |-> "none", line |-> 0]

(***************************************************************************)
(* The order lifecycle: create, edit, complete, return.                    *)
(***************************************************************************)
CreateInputs ==
    {OrderIn("purchase", "S1", "W1", <<Line(200, 10)>>),
     OrderIn("sale", "W1", "C1", <<Line(100, 20), Line(150, 20)>>),
     OrderIn("sale", "S1", "C1", <<Line(100, 20)>>),
     [OrderIn("purchase", "S1", "W1", <<Line(200, 10)>>)
        EXCEPT !.logistics_company_id = "L1"]}

UpdateInputs ==
    {UpdateIn(TRUE, <<LineFrom(100, 20, 1)>>),
     UpdateIn(TRUE, << >>)}

ActionInputs ==
    {ActionIn("complete", None), ActionIn("return", 0),
     ActionIn("return", None), ActionIn("cancel", None)}

CreateOrder ==
    \E order_in \in CreateInputs :
        LET Do(r) ==
              /\ Store(get_db(DB, r))
              /\ lastOp' = Op("create", NewId(orders), "none",
                              [ok |-> r.ok, err |-> "none", line |-> 0])
        IN  /\ NewId(orders) <= MaxOrders
            /\ Do(create_order(DB, order_in, now))
            /\ UNCHANGED <<now, sessions>>

UpdateOrder ==
    \E id \in 1..MaxOrders, order_in \in UpdateInputs :
        LET Do(r) ==
              /\ r.ok => ItemIds(r.db) \subseteq 1..MaxItemId
              /\ Store(get_db(DB, r))
              /\ lastOp' = Op("update", id, "none",
                              [ok |-> r.ok, err |-> "none", line |-> 0])
        IN  /\ Do(update_order(DB, id, order_in))
            /\ UNCHANGED <<now, sessions>>

ChangeOrderStatus ==
    \E id \in 1..MaxOrders, action_in \in ActionInputs :
        LET Do(r) ==
              /\ Store(get_db(DB, r))
              /\ lastOp' = Op("action", id, action_in.action, r)
        IN  /\ action_in.action = "return" => NewId(orders) <= MaxOrders
            /\ Do(change_order_status(DB, id, action_in, now))
            /\ UNCHANGED <<now, sessions>>

DeleteOrder ==
    \E id \in 1..MaxOrders :
        LET Do(r) ==
              /\ Store(get_db(DB, r))
              /\ lastOp' = Op("delete", id, "none", Plain(r.ok))
        IN  /\ Do(delete_order(DB, id))
            /\ UNCHANGED <<now, sessions>>

Next == CreateOrder \/ UpdateOrder \/ ChangeOrderStatus \/ DeleteOrder

Spec == Init /\ [][Next]_vars

(***************************************************************************)
(* The stock ledger: completions, stock taking, opening stock, cleanup     *)
(* and recalculation.                                                      *)
(***************************************************************************)

StockCreateInputs ==
    {OrderIn("purchase", "S1", "W1", <<Line(250, 10)>>),
     OrderIn("sale", "W1", "C1", <<Line(100, 20)>>)}

StockCreateOrder ==
    \E order_in \in StockCreateInputs :
        LET Do(r) ==
              /\ Store(get_db(DB, r))
              /\ lastOp' = Op("create", NewId(orders), "none", Plain(r.ok))
        IN  /\ Len(orders) < MaxStockOrders
            /\ Do(create_order(DB, order_in, now))
            /\ UNCHANGED <<now, sessions>>

StockCompleteOrder ==
    \E id \in 1..MaxStockOrders :
        LET Do(r) ==
              /\ r.ok => Len(r.db.flows) <= MaxFlows
              /\ Store(get_db(DB, r))
              /\ lastOp' = Op("action", id, "complete", r)
        IN  /\ Do(change_order_status(DB, id, ActionIn("complete", None), now))
            /\ UNCHANGED <<now, sessions>>

AdjustStock ==
    \E stock_id \in 1..2, new_quantity \in {0, QtyScale} :
        LET Do(r) ==
              /\ r.ok => Len(r.db.flows) <= MaxFlows
              /\ Store(get_db(DB, r))
              /\ lastOp' = Op("adjust", stock_id, "none", Plain(r.ok))
        IN  /\ Do(adjust_stock(DB, stock_id, new_quantity))
            /\ UNCHANGED <<now, sessions>>

RevertStockFlow ==
    \E flow_id \in 1..MaxFlows :
        LET Do(r) ==
              /\ r.ok => Len(r.db.flows) <= MaxFlows
              /\ Store(get_db(DB, r))
              /\ lastOp' = Op("revert", flow_id, "none", Plain(r.ok))
        IN  /\ Do(revert_stock_flow(DB, flow_id))
            /\ UNCHANGED <<now, sessions>>

CreateInitialStock ==
    \E warehouse_id \in {"W1", "S1"}, quantity \in {3 * QtyScale} :
        LET Do(r) ==
              /\ r.ok => Len(r.db.flows) <= MaxFlows
              /\ Store(get_db(DB, r))
              /\ lastOp' = Op("initial", 0, "none", Plain(r.ok))
        IN  /\ Do(create_initial_stock(DB, warehouse_id, 1, quantity))
            /\ UNCHANGED <<now, sessions>>

CleanupEmptyStocks ==
    LET Do(r) ==
          /\ Store(get_db(DB, r))
          /\ lastOp' = Op("cleanup", 0, "none", Plain(r.ok))
    IN  /\ Do(cleanup_empty_stocks(DB))
        /\ UNCHANGED <<now, sessions>>

RecalculateStocks ==
    \E keys \in Orderings(all_keys(DB)) :
        LET Do(r) ==
              /\ Len(r.db.flows) <= MaxFlows
              /\ Store(get_db(DB, r))
              /\ lastOp' = Op("recalculate", 0, "none", Plain(r.ok))
        IN  /\ Do(recalculate_all_stocks(DB, keys))
            /\ UNCHANGED <<now, sessions>>

NextStock ==
    \/ StockCreateOrder \/ StockCompleteOrder \/ AdjustStock
    \/ RevertStockFlow \/ CreateInitialStock \/ CleanupEmptyStocks
    \/ RecalculateStocks

SpecStock == Init /\ [][NextStock]_vars

\* The stock ledger kept by its own bookkeeping alone: no cleanup and no
\* recalculation.
SpecLedger ==
    Init /\ [][StockCreateOrder \/ StockCompleteOrder \/ AdjustStock
               \/ RevertStockFlow \/ CreateInitialStock]_vars

(***************************************************************************)
(* Concurrent requests.  Every request has a session of its own            *)
(* (core/deps.py) on a connection of its own; the handler reads rows,      *)
(* changes the objects in memory, and its one commit writes the changed    *)
(* attributes and the new rows.  No handler locks a row it has read, so    *)
(* another request may commit between the reads and the commit.            *)
(***************************************************************************)
\* UPDATE ... SET <the attributes the session changed> on one row.
MergeRow(base, mine, cur) ==
    [f \in DOMAIN cur |-> IF mine[f] # base[f] THEN mine[f] ELSE cur[f]]

\* The rows a session added to a table, with the row ids the database
\* gives them at the commit.
RECURSIVE Inserted(_, _, _)
Inserted(base, mine, cur) ==
    IF Len(mine) = 0 THEN cur
    ELSE IF HasId(base, Head(mine).id) THEN Inserted(base, Tail(mine), cur)
    ELSE Inserted(base, Tail(mine),
                  Append(cur, [Head(mine) EXCEPT !.id = NewId(cur)]))

\* The flush of one table at the commit: the changed attributes of the
\* rows the session had read, then the rows it added.
MergeTable(base, mine, cur) ==
    Inserted(base, mine,
        [i \in 1..Len(cur) |->
            IF HasId(base, cur[i].id) /\ HasId(mine, cur[i].id)
            THEN MergeRow(base[Idx(base, cur[i].id)],
                          mine[Idx(mine, cur[i].id)], cur[i])
            ELSE cur[i]])

\* The database after the commit of a session that read base and holds
\* mine.
commit(base, mine, cur) ==
    [orders |-> MergeTable(base.orders, mine.orders, cur.orders),
     stocks |-> MergeTable(base.stocks, mine.stocks, cur.stocks),
     flows |-> MergeTable(base.flows, mine.flows, cur.flows),
     batches |-> MergeTable(base.batches, mine.batches, cur.batches),
     allocs |-> MergeTable(base.allocs, mine.allocs, cur.allocs),
     accounts |-> MergeTable(base.accounts, mine.accounts, cur.accounts),
     balance |-> MergeRow(base.balance, mine.balance, cur.balance),
     payments |-> MergeTable(base.payments, mine.payments, cur.payments)]

TxnCreateInputs ==
    {OrderIn("purchase", "S1", "W1", <<Line(200, 10)>>),
     OrderIn("sale", "W1", "C1", <<Line(150, 20)>>)}

TxnCreateOrder ==
    \E order_in \in TxnCreateInputs :
        LET Do(r) ==
              /\ Store(get_db(DB, r))
              /\ lastOp' = Op("create", NewId(orders), "none", Plain(r.ok))
        IN  /\ Len(orders) < MaxTxnOrders
            /\ Do(create_order(DB, order_in, now))
            /\ UNCHANGED <<now, sessions>>

\* The completion of a purchase.  It flushes its new lot in the middle of
\* the handler (batches.py:712) and so holds the write lock of the database
\* from there to its commit: it is one step for every other writer.
TxnCompleteOrder ==
    \E id \in 1..MaxTxnOrders :
        LET Do(r) ==
              /\ Store(get_db(DB, r))
              /\ lastOp' = Op("action", id, "complete", r)
        IN  /\ HasId(orders, id)
            /\ Target(id).order_type = "purchase"
            /\ Do(change_order_status(DB, id, ActionIn("complete", None), now))
            /\ UNCHANGED <<now, sessions>>

\* The handler of an outbound completion has read its rows and run up to
\* its commit.
TxnBegin ==
    \E id \in 1..MaxTxnOrders :
        /\ Len(sessions) < MaxSessions
        /\ HasId(orders, id)
        /\ Target(id).order_type = "sale"
        /\ sessions' = Append(sessions,
              [id |-> id, base |-> DB,
               r |-> change_order_status(DB, id, ActionIn("complete", None),
                                         now)])
        /\ UNCHANGED <<dbvars, now, lastOp>>

\* The handler commits, or its session is closed after it raised.
TxnEnd ==
    \E i \in 1..Len(sessions) :
        LET s == sessions[i]
        IN  /\ Store(IF s.r.ok THEN commit(s.base, s.r.db, DB) ELSE DB)
            /\ sessions' = [j \in 1..(Len(sessions) - 1) |->
                               IF j < i THEN sessions[j] ELSE sessions[j + 1]]
            /\ lastOp' = Op("commit", s.id, "complete", s.r)
            /\ UNCHANGED now

NextTxn == TxnCreateOrder \/ TxnCompleteOrder \/ TxnBegin \/ TxnEnd

SpecTxn == Init /\ [][NextTxn]_vars

(***************************************************************************)
(* Lots and their first-in-first-out allocation: purchases received on     *)
(* different days, sales drawn on their lots.                              *)
(***************************************************************************)
FifoCreateInputs ==
    {OrderIn("purchase", "S1", "W1", <<Line(100, 10)>>),
     [OrderIn("purchase", "S1", "W1", <<Line(100, 12)>>)
        EXCEPT !.unloading_date = 1],
     [OrderIn("sale", "W1", "C1", <<Line(150, 20)>>)
        EXCEPT !.order_date = MaxDay]}

FifoCreateOrder ==
    \E order_in \in FifoCreateInputs :
        LET Do(r) ==
              /\ Store(get_db(DB, r))
              /\ lastOp' = Op("create", NewId(orders), "none", Plain(r.ok))
        IN  /\ Len(orders) < MaxFifoOrders
            /\ Do(create_order(DB, order_in, now))
            /\ UNCHANGED <<now, sessions>>

FifoCompleteOrder ==
    \E id \in 1..MaxFifoOrders :
        LET Do(r) ==
              /\ Store(get_db(DB, r))
              /\ lastOp' = Op("action", id, "complete", r)
        IN  /\ HasId(orders, id)
            /\ Do(change_order_status(DB, id, ActionIn("complete", None), now))
            /\ UNCHANGED <<now, sessions>>

\* datetime.utcnow() moves on.
Tick ==
    /\ now < MaxDay
    /\ now' = now + 1
    /\ UNCHANGED <<dbvars, sessions, lastOp>>

NextFifo == FifoCreateOrder \/ FifoCompleteOrder \/ Tick

SpecFifo == Init /\ [][NextFifo]_vars

(***************************************************************************)
(* The deduction formulas that can be stored, applied to gross weights.    *)
(***************************************************************************)
\* DeductionFormulaCreate: formula_type is one of four policies; value is
\* any Decimal.  Values in 1/ValueScale: -0.5, 0, 0.5, 0.99, 1 and 1.5.
FormulaInputs ==
    [formula_type : {"none", "percentage", "fixed", "fixed_per_unit"},
     value : {-5000, 0, 5000, 9900, 10000, 15000}]

\* A stored formula and a weighing, before the formula is applied.
InitFormula ==
    /\ orders = << >> /\ stocks = << >> /\ flows = << >>
    /\ batches = << >> /\ allocs = << >> /\ accounts = << >>
    /\ balance = [e \in EntityIds |-> 0]
    /\ payments = << >>
    /\ now = 1
    /\ sessions = << >>
    /\ \E formula \in FormulaInputs, gross_weight \in {0, 100, 250},
          unit_count \in 1..MaxUnitCount :
          lastOp = [op |-> "weigh", formula |-> formula,
                    gross_weight |-> gross_weight,
                    unit_count |-> unit_count, net_weight |-> 0]

\* POST /deduction-formulas/calculate
CalculateNetWeight ==
    /\ lastOp.op = "weigh"
    /\ lastOp' = [lastOp EXCEPT
                    !.op = "calculate",
                    !.net_weight = calculate_net_weight(lastOp.formula,
                                       lastOp.gross_weight, lastOp.unit_count)]
    /\ UNCHANGED <<dbvars, now, sessions>>

SpecFormula == InitFormula /\ [][CalculateNetWeight]_vars

(***************************************************************************)
(* Weighed purchases and sales that outrun the lots: a customer return     *)
(* puts stock in the warehouse that no lot holds.                          *)
(***************************************************************************)
MaxWeighedOrders == 3

WeighedCreateOrder ==
    \E order_in \in
          {OrderIn("purchase", "S1", "W1",
                   <<WeighedLine(100, 10, 100, 2)>>),
           OrderIn("return_in", "C1", "W1", <<Line(100, 20)>>),
           OrderIn("sale", "W1", "C1", <<Line(150, 20)>>)} :
        LET Do(r) ==
              /\ Store(get_db(DB, r))
              /\ lastOp' = Op("create", NewId(orders), "none", Plain(r.ok))
        IN  /\ Len(orders) < MaxWeighedOrders
            /\ Do(create_order(DB, order_in, now))
            /\ UNCHANGED <<now, sessions>>

NextWeighed == WeighedCreateOrder \/ FifoCompleteOrder

SpecWeighed == Init /\ [][NextWeighed]_vars

(***************************************************************************)
(* Amounts and account entries: orders with fees, their completion, and    *)
(* the regeneration of the entries.                                        *)
(***************************************************************************)
AcctCreateInputs ==
    {OrderIn("purchase", "S1", "W1", <<Line(200, 10)>>),
     OrderIn("sale", "W1", "C1", <<Line(100, 20)>>),
     [OrderIn("return_in", "C1", "W1", <<Line(100, 20)>>)
        EXCEPT !.other_fee = 5]}

AcctCreateOrder ==
    \E order_in \in AcctCreateInputs :
        LET Do(r) ==
              /\ Store(get_db(DB, r))
              /\ lastOp' = Op("create", NewId(orders), "none", Plain(r.ok))
        IN  /\ Len(orders) < MaxAcctOrders
            /\ Do(create_order(DB, order_in, now))
            /\ UNCHANGED <<now, sessions>>

AcctCompleteOrder ==
    \E id \in 1..MaxAcctOrders :
        LET Do(r) ==
              /\ Store(get_db(DB, r))
              /\ lastOp' = Op("action", id, "complete", r)
        IN  /\ HasId(orders, id)
            /\ Do(change_order_status(DB, id, ActionIn("complete", None), now))
            /\ UNCHANGED <<now, sessions>>

RecalculateAccounts ==
    LET Do(r) ==
          /\ Store(get_db(DB, r))
          /\ lastOp' = Op("regenerate", 0, "none", Plain(r.ok))
    IN  /\ Do(recalculate_all_accounts(DB))
        /\ UNCHANGED <<now, sessions>>

NextAcct == AcctCreateOrder \/ AcctCompleteOrder \/ RecalculateAccounts

SpecAcct == Init /\ [][NextAcct]_vars

(***************************************************************************)
(* Returns: orders are completed and taken back, in full or in part.       *)
(***************************************************************************)
ReturnCreateOrder ==
    \E order_in \in {OrderIn("purchase", "S1", "W1", <<Line(200, 10)>>),
                     OrderIn("sale", "W1", "C1", <<Line(100, 20)>>)} :
        LET Do(r) ==
              /\ Store(get_db(DB, r))
              /\ lastOp' = Op("create", NewId(orders), "none", Plain(r.ok))
        IN  /\ Len(orders) < MaxReturnOrders - 1
            /\ Do(create_order(DB, order_in, now))
            /\ UNCHANGED <<now, sessions>>

ReturnChangeOrderStatus ==
    \E id \in 1..MaxReturnOrders :
      \E action_in \in {ActionIn("complete", None), ActionIn("return", 0),
                        [ActionIn("return", 0) EXCEPT !.return_items =
                           <<[order_item_id |-> 1, quantity |-> 100]>>]} :
        LET Do(r) ==
              /\ r.ok => Len(r.db.orders) <= MaxReturnOrders
              /\ Store(get_db(DB, r))
              /\ lastOp' = Op(IF Len(action_in.return_items) > 0
                              THEN "action_lines" ELSE "action",
                              id, action_in.action, r)
        IN  /\ HasId(orders, id)
            /\ Do(change_order_status(DB, id, action_in, now))
            /\ UNCHANGED <<now, sessions>>

\* PUT /orders/{id} on a draft return order: its lines are re-submitted with
\* a larger quantity, still naming the line they return.
ReturnUpdateOrder ==
    \E id \in 1..MaxReturnOrders :
        LET Do(r) ==
              /\ Store(get_db(DB, r))
              /\ lastOp' = Op("update", id, "none", Plain(r.ok))
        IN  /\ HasId(orders, id)
            /\ Target(id).order_type \in {"return_in", "return_out"}
            /\ Target(id).status = "draft"
            /\ Do(update_order(DB, id,
                    UpdateIn(TRUE, <<[Line(300, 10)
                                       EXCEPT !.original_item_id = 1]>>)))
            /\ UNCHANGED <<now, sessions>>

NextReturn ==
    ReturnCreateOrder \/ ReturnChangeOrderStatus \/ ReturnUpdateOrder

SpecReturn == Init /\ [][NextReturn]_vars

(***************************************************************************)
(* Account entries under payment: entries are generated by completions and *)
(* by the regeneration, paid, un-paid and cancelled.                       *)
(***************************************************************************)
PayCreateInputs ==
    {OrderIn("purchase", "S1", "W1", <<Line(200, 10)>>),
     OrderIn("sale", "W1", "C1", <<Line(100, 20)>>)}

PaymentIn(entity_id, account_balance_id, payment_type, amount) ==
    [entity_id |-> entity_id, account_balance_id |-> account_balance_id,
     payment_type |-> payment_type, amount |-> amount]

PaymentInputs ==
    {PaymentIn(IF t = "receive" THEN "C1" ELSE "S1", id, t, amount) :
        id \in 1..(2 * MaxPayOrders), t \in {"receive", "pay"},
        amount \in {10, 20}}
      \cup {PaymentIn("C1", 0, "receive", 10)}

PayCreateOrder ==
    \E order_in \in PayCreateInputs :
        LET Do(r) ==
              /\ Store(get_db(DB, r))
              /\ lastOp' = Op("create", NewId(orders), "none", Plain(r.ok))
        IN  /\ Len(orders) < MaxPayOrders
            /\ Do(create_order(DB, order_in, now))
            /\ UNCHANGED <<now, sessions>>

PayCompleteOrder ==
    \E id \in 1..MaxPayOrders :
        LET Do(r) ==
              /\ Store(get_db(DB, r))
              /\ lastOp' = Op("action", id, "complete", r)
        IN  /\ HasId(orders, id)
            /\ Do(change_order_status(DB, id, ActionIn("complete", None), now))
            /\ UNCHANGED <<now, sessions>>

PayRecalculateAccounts ==
    LET Do(r) ==
          /\ Store(get_db(DB, r))
          /\ lastOp' = Op("regenerate", 0, "none", Plain(r.ok))
    IN  /\ Do(recalculate_all_accounts(DB))
        /\ UNCHANGED <<now, sessions>>

CreatePayment ==
    \E payment_in \in PaymentInputs :
        LET Do(r) ==
              /\ Store(get_db(DB, r))
              /\ lastOp' = Op("pay", 0, "none",
                              Plain(r.ok))
        IN  /\ Len(payments) < MaxPayments
            /\ Do(create_payment(DB, payment_in))
            /\ UNCHANGED <<now, sessions>>

DeletePayment ==
    \E payment_id \in 1..MaxPayments :
        LET Do(r) ==
              /\ Store(get_db(DB, r))
              /\ lastOp' = Op("unpay", 0, "none", Plain(r.ok))
        IN  /\ Do(delete_payment(DB, payment_id))
            /\ UNCHANGED <<now, sessions>>

CancelAccount ==
    \E account_id \in 1..(2 * MaxPayOrders) :
        LET Do(r) ==
              /\ Store(get_db(DB, r))
              /\ lastOp' = Op("cancel_account", 0, "none",
                              Plain(r.ok))
        IN  /\ Do(cancel_account(DB, account_id))
            /\ UNCHANGED <<now, sessions>>

NextPay ==
    \/ PayCreateOrder \/ PayCompleteOrder \/ PayRecalculateAccounts
    \/ CreatePayment \/ DeletePayment \/ CancelAccount

SpecPay == Init /\ [][NextPay]_vars

(***************************************************************************)
(* Properties of the order lifecycle.                                      *)
(***************************************************************************)
\* C1: completing an order is all-or-nothing: when the completion fails at
\* any step, no stock row, stock flow, lot, lot allocation, stored storage
\* fee, account entry, running balance or order status differs from its
\* value before the request.
C1_CompletionAllOrNothing ==
    [][(/\ lastOp'.op = "action"
        /\ lastOp'.action = "complete"
        /\ ~lastOp'.ok)
       => UNCHANGED dbvars]_vars

\* A completion of a two-line sale has just failed for lack of stock on its
\* second line, after the first line's stock and lot were reduced.
C1_Witness ==
    /\ lastOp.op = "action" /\ lastOp.action = "complete"
    /\ ~lastOp.ok /\ lastOp.err = "insufficient_stock" /\ lastOp.line = 2
    /\ HasId(orders, lastOp.id)
    /\ Target(lastOp.id).order_type = "sale"
    /\ Target(lastOp.id).status = "draft"

\* An action is legal for a status: complete from draft, return from
\* completed.
Legal(action, status) ==
    \/ action = "complete" /\ status = "draft"
    \/ action = "return" /\ status = "completed"

C3_DraftHasNoExternalEffects ==
    [][(\/ lastOp'.op = "create"
        \/ /\ lastOp'.op = "update"
           /\ HasId(orders, lastOp'.id)
           /\ Target(lastOp'.id).status = "draft")
       => UNCHANGED <<stocks, batches, accounts, balance>>]_vars

(***************************************************************************)
(* Properties of the stock ledger.                                         *)
(***************************************************************************)
\* C4: for every stock row at rest, available_quantity = quantity -
\* reserved_quantity is never negative, after any sequence of committed
\* completions, adjustments, reverts, opening-stock imports, cleanups and
\* recalculations.
C4_AvailableNeverNegative ==
    \A i \in 1..Len(stocks) : available_quantity(stocks[i]) >= 0

\* C7: the stock recalculation is idempotent: right after a recalculation,
\* a second one, in whatever order it walks the keys, changes no stock row
\* and appends no corrective flow.
C7_RecalculateIdempotent ==
    lastOp.op = "recalculate"
        => \A keys \in Orderings(all_keys(DB)) :
                recalculate_all_stocks(DB, keys).db = DB

\* A recalculation has just corrected a stock row that also carries a manual
\* adjustment.
C7_Witness ==
    /\ lastOp.op = "recalculate"
    /\ Len(flows) > 1
    /\ flows[Len(flows)].reason = "recalc"
    /\ \E j \in 1..Len(flows) :
          /\ flows[j].reason = "manual"
          /\ flows[j].stock_id = flows[Len(flows)].stock_id

(***************************************************************************)
(* Properties of concurrent completions.                                   *)
(***************************************************************************)
\* What the flows of one kind moved on a stock row.
Moved(stock_id, flow_type) ==
    LET fs == {j \in 1..Len(flows) : /\ flows[j].stock_id = stock_id
                                     /\ flows[j].flow_type = flow_type}
    IN  SumOver([j \in fs |-> flows[j].quantity_change], fs)

\* What the allocation rows took from a lot.
Allocated(batch_id) ==
    LET as == {j \in 1..Len(allocs) : allocs[j].batch_id = batch_id}
    IN  SumOver([j \in as |-> allocs[j].quantity], as)

\* C5: no two concurrent completions oversell a stock row or a lot: after
\* any interleaving of outbound completions the stock row was never reduced
\* by more than it held, and the total quantity allocated from a lot never
\* exceeds the quantity the lot held.
C5_NoOversell ==
    /\ \A i \in 1..Len(stocks) :
          -Moved(stocks[i].id, "out") <= Moved(stocks[i].id, "in")
    /\ \A i \in 1..Len(batches) :
          Allocated(batches[i].id) <= batches[i].initial_quantity

(***************************************************************************)
(* Properties of the lots.                                                 *)
(***************************************************************************)
\* C6: first-in-first-out allocation consumes lots in ascending receipt
\* order: when the completion of a sale draws on a lot B, every lot A of
\* the same product and source warehouse that was received before B and had
\* quantity available is fully drained by that completion.
C6_FifoByReceiptDate ==
    [][(/\ lastOp'.op = "action" /\ lastOp'.action = "complete"
        /\ lastOp'.ok
        /\ HasId(orders, lastOp'.id)
        /\ Target(lastOp'.id).order_type = "sale")
       => \A a, b \in 1..Len(batches) :
            (/\ batches[a].product_id = batches[b].product_id
             /\ batches[a].storage_entity_id = Target(lastOp'.id).source_id
             /\ batches[b].storage_entity_id = Target(lastOp'.id).source_id
             /\ batches[a].received_at < batches[b].received_at
             /\ batch_available_quantity(batches[a]) > 0
             /\ batches'[b].current_quantity < batches[b].current_quantity)
            => batch_available_quantity(batches'[a]) = 0]_vars

\* A sale has just been completed that drained the older of two lots and
\* drew the rest from the newer one, the older lot being the later row.
C6_Witness ==
    /\ lastOp.op = "action" /\ lastOp.action = "complete" /\ lastOp.ok
    /\ HasId(orders, lastOp.id)
    /\ Target(lastOp.id).order_type = "sale"
    /\ \E a, b \in 1..Len(batches) :
          /\ batches[a].received_at < batches[b].received_at
          /\ batches[a].id > batches[b].id
          /\ batches[a].current_quantity = 0
          /\ batches[b].current_quantity > 0
          /\ batches[b].current_quantity < batches[b].initial_quantity

(***************************************************************************)
(* Properties of the amounts and account entries.                          *)
(***************************************************************************)
\* C8: for every order at rest, after any sequence of create, update and
\* complete operations, final_amount = goods amount + freight + storage fee
\* + other fee - discount, also after completion has stored the storage fee
\* it computed.
C8_FinalAmountEquation ==
    \A i \in 1..Len(orders) :
        orders[i].final_amount =
            orders[i].total_amount + orders[i].total_shipping
            + orders[i].total_storage_fee + orders[i].other_fee
            - orders[i].total_discount

\* The components of an order that are strictly positive; freight counts
\* when a logistics party is set.
PositiveComponents(order) ==
    {c \in {"goods", "freight", "storage", "other"} :
        \/ c = "goods" /\ order.total_amount > 0
        \/ c = "freight" /\ order.total_shipping > 0
                         /\ order.logistics_company_id # NoEntity
        \/ c = "storage" /\ order.total_storage_fee > 0
        \/ c = "other" /\ order.other_fee > 0}

\* The account entries tied to an order.
EntriesOf(rows, order_id) ==
    {j \in 1..Len(rows) : rows[j].order_id = order_id}

\* C9: after any sequence of completions and regenerations, every order has
\* exactly one account entry per fee component that is not zero, and never
\* more.
C9_OneEntryPerComponent ==
    \A i \in 1..Len(orders) :
        Cardinality(EntriesOf(accounts, orders[i].id)) =
            IF orders[i].status = "completed"
            THEN Cardinality(PositiveComponents(orders[i]))
            ELSE 0

\* The entry the rule table asks for a component of an order.
RuleTable(order, c) ==
    LET inbound == order.order_type \in {"purchase", "return_in"}
    IN  CASE c = "goods" ->
               [entity_id |-> IF order.order_type \in {"purchase", "return_in"}
                              THEN order.source_id ELSE order.target_id,
                balance_type |-> IF order.order_type \in {"purchase", "return_in"}
                                 THEN "payable" ELSE "receivable",
                amount |-> order.total_amount]
          [] c = "freight" ->
               [entity_id |-> order.logistics_company_id,
                balance_type |-> "payable", amount |-> order.total_shipping]
          [] c = "storage" ->
               [entity_id |-> IF inbound THEN order.target_id
                              ELSE order.source_id,
                balance_type |-> "payable",
                amount |-> order.total_storage_fee]
          [] OTHER ->
               [entity_id |-> MISC_EXPENSE_ENTITY_CODE,
                balance_type |-> "payable", amount |-> order.other_fee]

\* C10: on completion, each strictly positive component of the order yields
\* one entry routed as the rule table says, and a component that is zero or
\* negative yields none.
C10_EntriesFollowRuleTable ==
    [][(/\ lastOp'.op = "action" /\ lastOp'.action = "complete"
        /\ lastOp'.ok /\ HasId(orders, lastOp'.id))
       => LET order == orders'[Idx(orders, lastOp'.id)]
              new == (Len(accounts) + 1)..Len(accounts')
          IN  /\ Cardinality(new) = Cardinality(PositiveComponents(order))
              /\ \A c \in PositiveComponents(order) :
                    \E j \in new :
                        /\ accounts'[j].order_id = order.id
                        /\ accounts'[j].entity_id = RuleTable(order, c).entity_id
                        /\ accounts'[j].balance_type
                              = RuleTable(order, c).balance_type
                        /\ accounts'[j].amount = RuleTable(order, c).amount]_vars

\* C12: a request to delete a completed order none of whose account entries
\* has a payment succeeds and removes the order together with its effects:
\* every stock row is back at its quantity less what the order's flows had
\* moved, and no lot, account entry or flow of the order is left.
C12_DeleteCompletedReverses ==
    [][(/\ lastOp'.op = "delete"
        /\ HasId(orders, lastOp'.id)
        /\ Target(lastOp'.id).status = "completed"
        /\ \A i \in 1..Len(accounts), j \in 1..Len(payments) :
              accounts[i].order_id = lastOp'.id
                 => payments[j].account_balance_id # accounts[i].id)
       => /\ lastOp'.ok
          /\ ~HasId(orders', lastOp'.id)
          /\ \A i \in 1..Len(accounts') :
                accounts'[i].order_id # lastOp'.id
          /\ \A i \in 1..Len(batches') :
                batches'[i].source_order_id # lastOp'.id
          /\ \A i \in 1..Len(flows') : flows'[i].order_id # lastOp'.id
          /\ \A i \in 1..Len(stocks) :
                LET own == {f \in 1..Len(flows) :
                              /\ flows[f].order_id = lastOp'.id
                              /\ flows[f].stock_id = stocks[i].id}
                    moved == SumOver([f \in own |-> flows[f].quantity_change],
                                     own)
                IN  IF HasId(stocks', stocks[i].id)
                    THEN stocks'[Idx(stocks', stocks[i].id)].quantity
                            = stocks[i].quantity - moved
                    ELSE stocks[i].quantity - moved = 0]_vars

\* C13: an update request against a completed order is rejected, and the
\* order (its lines and its totals) and the lot allocation rows are as they
\* were before the request.
C13_UpdateOnlyWhileDraft ==
    [][(/\ lastOp'.op = "update"
        /\ HasId(orders, lastOp'.id)
        /\ Target(lastOp'.id).status = "completed")
       => /\ ~lastOp'.ok
          /\ HasId(orders', lastOp'.id)
          /\ orders'[Idx(orders', lastOp'.id)] = Target(lastOp'.id)
          /\ allocs' = allocs]_vars

\* C14: a cancel action on a draft order is accepted and leaves the order
\* cancelled, with stock rows, flows, lots, allocation rows and account
\* entries untouched; a cancel action on an order in any other status is
\* rejected and changes nothing.
C14_DraftCanBeCancelled ==
    [][(/\ lastOp'.op = "action" /\ lastOp'.action = "cancel"
        /\ HasId(orders, lastOp'.id))
       => IF Target(lastOp'.id).status = "draft"
          THEN /\ lastOp'.ok
               /\ HasId(orders', lastOp'.id)
               /\ orders'[Idx(orders', lastOp'.id)].status = "cancelled"
               /\ UNCHANGED <<stocks, flows, batches, allocs, accounts,
                              balance, payments>>
          ELSE ~lastOp'.ok /\ UNCHANGED dbvars]_vars

\* C15: an accepted return action on a completed order, whatever the type
\* of the order, leaves that order completed and creates exactly one new
\* order, a draft whose parent (related_order_id) is the original; and a
\* completed order stays completed under every request.
C15_ReturnCreatesOneLinkedDraft ==
    [][/\ \A i \in 1..Len(orders) :
            orders[i].status = "completed"
               => /\ HasId(orders', orders[i].id)
                  /\ orders'[Idx(orders', orders[i].id)].status = "completed"
       /\ (/\ lastOp'.op \in {"action", "action_lines"}
           /\ lastOp'.action = "return" /\ lastOp'.ok)
          => LET new == {i \in 1..Len(orders') :
                            ~HasId(orders, orders'[i].id)}
             IN  /\ Cardinality(new) = 1
                 /\ Len(orders') = Len(orders) + 1
                 /\ \A i \in new :
                       /\ orders'[i].status = "draft"
                       /\ orders'[i].related_order_id = lastOp'.id]_vars

\* C16: a return action without explicit lines on a completed sale or
\* purchase creates a return order with one line for every original line
\* that still has a returnable quantity, of quantity = original quantity
\* less what the lines of earlier, not cancelled return orders took of it;
\* when no line has a returnable quantity left the action is rejected and
\* no order is created.
C16_ReturnPrepopulatesRemaining ==
    [][(/\ lastOp'.op = "action" /\ lastOp'.action = "return"
        /\ HasId(orders, lastOp'.id)
        /\ Target(lastOp'.id).status = "completed"
        /\ Target(lastOp'.id).order_type \in {"sale", "purchase"})
       => LET items == Target(lastOp'.id).items
              Remaining(k) == items[k].quantity
                                - _get_returned_map(DB, items[k].id)
              open == {k \in 1..Len(items) : Remaining(k) > 0}
              new == {i \in 1..Len(orders') : ~HasId(orders, orders'[i].id)}
          IN  IF open = {}
              THEN ~lastOp'.ok /\ orders' = orders
              ELSE /\ lastOp'.ok
                   /\ Cardinality(new) = 1
                   /\ \A i \in new :
                         /\ Len(orders'[i].items) = Cardinality(open)
                         /\ \A k \in open :
                               \E j \in 1..Len(orders'[i].items) :
                                 /\ orders'[i].items[j].original_item_id
                                       = items[k].id
                                 /\ orders'[i].items[j].quantity
                                       = Remaining(k)]_vars

\* C17: completing a customer return gives the returned quantity of every
\* line back to the lots its original sale line was allocated from: their
\* current_quantity grows by the returned quantity in total, and none of
\* them that holds goods again is left depleted.
C17_ReturnInRestoresLots ==
    [][(/\ lastOp'.op = "action" /\ lastOp'.action = "complete"
        /\ lastOp'.ok
        /\ HasId(orders, lastOp'.id)
        /\ Target(lastOp'.id).order_type = "return_in")
       => \A k \in 1..Len(Target(lastOp'.id).items) :
            LET item == Target(lastOp'.id).items[k]
                lots == {allocs[a].batch_id : a \in {x \in 1..Len(allocs) :
                            allocs[x].order_item_id = item.original_item_id}}
                Gain == [b \in lots |->
                           batches'[Idx(batches', b)].current_quantity
                             - batches[Idx(batches, b)].current_quantity]
            IN  /\ \A b \in lots : HasId(batches', b)
                /\ SumOver(Gain, lots) = item.quantity
                /\ \A b \in lots :
                      batches'[Idx(batches', b)].current_quantity > 0
                         => batches'[Idx(batches', b)].status # "depleted"]_vars

\* C11: every account entry at rest has balance = amount - paid_amount, and
\* its status is "paid" exactly when its balance is at most zero.
C11_BalanceAndStatus ==
    \A i \in 1..Len(accounts) :
        /\ accounts[i].balance = accounts[i].amount - accounts[i].paid_amount
        /\ accounts[i].status = "paid" <=> accounts[i].balance <= 0

\* An entry settled in full by its second payment.
C11_Witness ==
    /\ lastOp.op = "pay" /\ lastOp.ok
    /\ \E i \in 1..Len(accounts) :
          /\ accounts[i].status = "paid"
          /\ accounts[i].paid_amount = accounts[i].amount
          /\ accounts[i].amount > 0
          /\ Cardinality({j \in 1..Len(payments) :
                 payments[j].account_balance_id = accounts[i].id}) = 2

C19_CostIsWeightedMeanAndProfit ==
    [][(/\ lastOp'.op = "action" /\ lastOp'.action = "complete"
        /\ lastOp'.ok
        /\ HasId(orders, lastOp'.id)
        /\ Target(lastOp'.id).order_type = "sale")
       => \A k \in 1..Len(Target(lastOp'.id).items) :
            LET item == orders'[Idx(orders', lastOp'.id)].items[k]
                recs == {a \in 1..Len(allocs') :
                            allocs'[a].order_item_id = item.id}
                quantity == SumOver([a \in recs |-> allocs'[a].quantity],
                                    recs)
                cost == SumOver([a \in recs |-> allocs'[a].quantity
                                                  * allocs'[a].cost_price],
                                recs)
            IN  quantity > 0
                => /\ item.cost_price = cost \div quantity
                   /\ item.profit = item.amount - item.cost_amount
      ]_vars

\* C20: when the candidate lots of a sale line hold less than the line's
\* quantity, the completion is not refused on that account; the allocation
\* records it creates for the line total exactly what the lots held, every
\* candidate lot ends at zero, and the rest of the line stays unallocated.
C20_ShortfallLeftUnallocated ==
    [][(/\ lastOp'.op = "action" /\ lastOp'.action = "complete"
        /\ HasId(orders, lastOp'.id)
        /\ Target(lastOp'.id).order_type = "sale"
        /\ Target(lastOp'.id).status = "draft")
       => LET order == Target(lastOp'.id)
              lots == {i \in 1..Len(batches) :
                          /\ batches[i].product_id \in Products
                          /\ batches[i].storage_entity_id = order.source_id
                          /\ batches[i].current_quantity > 0
                          /\ batches[i].status # "depleted"}
              held == SumOver([i \in lots |-> batches[i].current_quantity],
                              lots)
              Before(k) == SumOver([j \in 1..(k - 1) |->
                                       order.items[j].quantity], 1..(k - 1))
              Left(k) == Max({held - Before(k), 0})
              wanted == Before(Len(order.items) + 1)
              created == (Len(allocs) + 1)..Len(allocs')
              Given(k) ==
                  LET recs == {a \in created : allocs'[a].order_item_id
                                                  = order.items[k].id}
                  IN  SumOver([a \in recs |-> allocs'[a].quantity], recs)
          IN  /\ ~lastOp'.ok
                 => \/ ~is_warehouse(order.source_id)
                    \/ \A p \in Products :
                          \/ ~HasStock(DB, order.source_id, p)
                          \/ available_quantity(
                                stocks[StockIdx(DB, order.source_id, p)])
                                < wanted
              /\ lastOp'.ok
                 => \A k \in 1..Len(order.items) :
                      Left(k) < order.items[k].quantity
                      => /\ Given(k) = Left(k)
                         /\ \A i \in lots :
                               batches'[i].current_quantity = 0
      ]_vars

\* A sale has just been completed although its lots held less than its
\* line: the line has allocation records for part of its quantity only.
C20_Witness ==
    /\ lastOp.op = "action" /\ lastOp.action = "complete" /\ lastOp.ok
    /\ HasId(orders, lastOp.id)
    /\ Target(lastOp.id).order_type = "sale"
    /\ \E k \in 1..Len(Target(lastOp.id).items) :
          LET item == Target(lastOp.id).items[k]
              recs == {a \in 1..Len(allocs) :
                          allocs[a].order_item_id = item.id}
              given == SumOver([a \in recs |-> allocs[a].quantity], recs)
          IN  0 < given /\ given < item.quantity

\* C21: for every formula that can be stored, every gross weight and every
\* unit count, the computed net weight is at least zero and at most the
\* gross weight.
C21_NetWeightWithinGross ==
    lastOp.op = "calculate"
    => /\ lastOp.net_weight >= 0
       /\ lastOp.net_weight <= lastOp.gross_weight * ValueScale

\* The lots dated by what was entered on their purchase orders: the
\* unloading date when one was given, the order date otherwise.
BusinessDated(db) ==
    LET Entered(b) ==
            IF HasId(db.orders, b.source_order_id)
            THEN LET order == db.orders[Idx(db.orders, b.source_order_id)]
                 IN  [b EXCEPT !.received_at =
                          IF order.unloading_date # 0
                          THEN order.unloading_date ELSE order.order_date]
            ELSE b
        Lots == [i \in 1..Len(db.batches) |-> Entered(db.batches[i])]
    IN  [db EXCEPT !.batches = Lots, !.fbatches = Lots]

\* C22: the storage fee stored on a completed sale is the fee its entered
\* dates and quantities give: the order's date, and for each lot drawn on the
\* date entered on the purchase that brought it in, whatever the clock showed
\* when the orders were processed.
C22_FeeFromBusinessDatesOnly ==
    \A i \in 1..Len(orders) :
        (orders[i].order_type = "sale" /\ orders[i].status = "completed")
        => orders[i].total_storage_fee
              = _calculate_outbound_storage_fee(BusinessDated(DB), orders[i])

\* C23: the stock flow log is append-only: every flow row that has been
\* committed is still there, unchanged, after any later operation.
C23_FlowLogAppendOnly ==
    [][\A j \in 1..Len(flows) :
          \E k \in 1..Len(flows') : flows'[k] = flows[j]]_vars

\* C24: in a state reached through opening-stock imports, completions,
\* manual adjusts and their reverts, a recalculation of the stocks, in
\* whatever order it walks the keys, changes no stock row and appends no
\* corrective flow.
C24_RecalculationAgrees ==
    \A keys \in Orderings(all_keys(DB)) :
        LET Do(r) == r.db.stocks = stocks /\ r.db.flows = flows
        IN  Do(recalculate_all_stocks(DB, keys))

\* C25: for every warehouse and product, the quantity of the stock row (zero
\* when there is none) equals the sum of current_quantity over the lots of
\* that product stored in that warehouse.
C25_StockEqualsLots ==
    \A w \in EntityIds, p \in Products :
        LET lots == {i \in 1..Len(batches) :
                        /\ batches[i].storage_entity_id = w
                        /\ batches[i].product_id = p}
            held == SumOver([i \in lots |-> batches[i].current_quantity],
                            lots)
        IN  held = IF HasStock(DB, w, p)
                   THEN stocks[StockIdx(DB, w, p)].quantity ELSE 0

\* C26: for every lot, initial_quantity - current_quantity equals the sum of
\* the quantities of the allocation records that refer to the lot.
C26_LotConservedAgainstAllocations ==
    \A i \in 1..Len(batches) :
        LET recs == {a \in 1..Len(allocs) :
                        allocs[a].batch_id = batches[i].id}
        IN  batches[i].initial_quantity - batches[i].current_quantity
               = SumOver([a \in recs |-> allocs[a].quantity], recs)

\* C27: for every line of a completed sale, the quantities of the allocation
\* records of the line add up to at most the quantity of the line.
C27_SaleLineAllocatedOnce ==
    \A i \in 1..Len(orders) :
        (orders[i].order_type = "sale" /\ orders[i].status = "completed")
        => \A k \in 1..Len(orders[i].items) :
              LET recs == {a \in 1..Len(allocs) :
                              allocs[a].order_item_id = orders[i].items[k].id}
              IN  SumOver([a \in recs |-> allocs[a].quantity], recs)
                     <= orders[i].items[k].quantity

\* C28: for every line of a completed order, the quantities of the lines that
\* name it as their original, over the return orders that are not
\* cancelled, add up to at most the quantity of the line.
C28_ReturnsWithinOriginal ==
    \A i \in 1..Len(orders) :
        orders[i].status = "completed"
        => \A k \in 1..Len(orders[i].items) :
              LET lines == {x \in (1..Len(orders)) \X (1..MaxItemId) :
                              /\ x[2] <= Len(orders[x[1]].items)
                              /\ orders[x[1]].order_type
                                    \in {"return_in", "return_out"}
                              /\ orders[x[1]].status # "cancelled"
                              /\ orders[x[1]].items[x[2]].original_item_id
                                    = orders[i].items[k].id}
              IN  SumOver([x \in lines |->
                              orders[x[1]].items[x[2]].quantity], lines)
                     <= orders[i].items[k].quantity

\* The running balances bal match the entries accts: for every entity, the
\* outstanding balance of its receivable entries less that of its payable
\* entries, cancelled entries left out.
MatchesLedger(accts, bal) ==
    \A e \in EntityIds :
        LET Open(t) == {i \in 1..Len(accts) :
                          /\ accts[i].entity_id = e
                          /\ accts[i].balance_type = t
                          /\ accts[i].status # "cancelled"}
            Owed(t) == SumOver([i \in Open(t) |-> accts[i].balance], Open(t))
        IN  bal[e] = Owed("receivable") - Owed("payable")

\* C29: the running balance of every entity matches its entries: a
\* completion, a payment, the deletion of a payment or the cancellation of an
\* entry, with every payment linked to an entry, takes a state in which the
\* balances match (as they do at the start, all being zero) to a state in
\* which they match.
C29_RunningBalanceMatchesLedger ==
    [][(/\ lastOp'.op \in {"create", "action", "pay", "unpay",
                           "cancel_account"}
        /\ \A j \in 1..Len(payments) : payments[j].account_balance_id # 0
        /\ \A j \in 1..Len(payments') : payments'[j].account_balance_id # 0
        /\ MatchesLedger(accounts, balance))
       => MatchesLedger(accounts', balance')]_vars

\* C30: the side effects of a completion are applied at most once per
\* order: whatever the interleaving of the completions, the committed rows
\* of an order hold at most one stock movement and one allocation per line
\* and at most one account entry of each kind.
C30_CompletionAppliedOnce ==
    \A i \in 1..Len(orders) :
        LET id == orders[i].id
            Lines == {orders[i].items[k].id : k \in 1..Len(orders[i].items)}
            Rows(table) == {j \in 1..Len(table) : table[j].order_id = id}
        IN  /\ Cardinality(Rows(flows)) <= Cardinality(Lines)
            /\ \A a, b \in Rows(accounts) :
                  accounts[a].notes = accounts[b].notes => a = b
            /\ \A a, b \in 1..Len(allocs) :
                  /\ allocs[a].order_item_id \in Lines
                  /\ allocs[a].order_item_id = allocs[b].order_item_id
                  /\ allocs[a].batch_id = allocs[b].batch_id
                  => a = b

====
